---- MODULE Spec2Model ----
(***************************************************************************)
(* A model of pocketflow-throttled: the dual-mode RateLimiter (semaphore   *)
(* plus sliding window), the throttled batch node that runs its items      *)
(* through the limiter with asyncio.gather, and the adaptive controllers.  *)
(*                                                                         *)
(* Time is time.monotonic() in integer ticks.  Code between two awaits of  *)
(* one coroutine runs without interleaving (one asyncio event loop), so    *)
(* each action is one such segment.                                        *)
(***************************************************************************)
EXTENDS Integers, Sequences, FiniteSets, TLC

\* ------------------------------------------------------------------ bounds

MaxTasks == 3
MaxClock == 6
MaxConcurrent == 2
MaxPerWindow == 2
MaxWindow == 2
MaxCeiling == 4
MaxThreshold == 2
MaxEvents == 3
MaxRetries == 2

\* ------------------------------------------------------- program constants

\* rate_limiter.py:117, the "+ 0.001" added to the sleep, as one tick
Epsilon == 1

\* max_per_window = None
None == 0

\* The window of the executors' limiters (window_seconds=60.0 at nodes.py:108
\* and in flows.py), scaled down to ticks of the model's clock
WindowSeconds == 2

Tasks == 1..MaxTasks

VARIABLES
    clock,        \* time.monotonic()
    limiters,     \* the live RateLimiter instances, by identity
    pc,           \* per task: where its coroutine is suspended
    lim,          \* per task: the limiter bound by its `async with` (0: none yet)
    wake_at,      \* per task: earliest clock at which its asyncio.sleep ends
    permit,       \* per task: it owns a permit of lim[t] (granted, not given back)
    last_exit,    \* how the latest protected block to end ended
    acquire_log,  \* history: <<limiter, timestamp>> of every acquire() that returned
    node,         \* the ThrottledParallelBatchNode / AdaptiveThrottledNode
    flow,         \* the AdaptiveThrottledBatchFlow controller
    items,        \* the batch handed to _exec
    run,          \* the _exec call: idle, running, cancelling, returned, raised, cancelled
    task_result,  \* per item task: its result or exception, once finished
    results,      \* the list _exec returned
    overtaken,    \* history: an item task finished before one of a lower index
    cur_retry,    \* per item task: attempts of the user function that have failed
    attempt_hit,  \* history, per item task: a failed attempt that was retried
                  \* raised a rate limit error
    registry,     \* LimiterRegistry._limiters: name -> limiter
    site,         \* per task: the name its call site passed to LimiterRegistry.get
    last_call,    \* history: the latest register / get_or_create / remove / reset
    calls         \* per flow instance: the batch of the graph's node it is running

limiterVars == <<clock, limiters, pc, lim, wake_at, permit, last_exit, acquire_log>>
ctlVars == <<node, flow>>
batchVars == <<items, run, task_result, results, overtaken, cur_retry, attempt_hit>>
regVars == <<registry, site, last_call>>
vars == <<limiterVars, ctlVars, batchVars, regVars, calls>>

\* ------------------------------------------------------------ small helpers

Min(a, b) == IF a < b THEN a ELSE b
Max(a, b) == IF a > b THEN a ELSE b

RECURSIVE Remove(_, _)
Remove(q, x) ==
    IF q = <<>> THEN <<>>
    ELSE IF Head(q) = x THEN Tail(q)
    ELSE <<Head(q)>> \o Remove(Tail(q), x)

\* ------------------------------------------------------------- RateLimiter

\* RateLimiter.__init__: a semaphore of max_concurrent permits, an empty
\* deque of timestamps, an unlocked asyncio.Lock.
RateLimiter(max_concurrent, max_per_window, window_seconds) ==
    [ max_concurrent |-> max_concurrent,
      max_per_window |-> max_per_window,
      window_seconds |-> window_seconds,
      value          |-> max_concurrent,   \* _semaphore._value
      sem_waiters    |-> <<>>,             \* _semaphore._waiters, FIFO
      lock_owner     |-> 0,                \* _lock: the task holding it, or 0
      lock_waiters   |-> <<>>,             \* _lock._waiters, FIFO
      timestamps     |-> <<>> ]            \* _timestamps

\* RateLimiter.__init__ raises ValueError for these arguments.
RateLimiterRejects(max_concurrent, max_per_window, window_seconds) ==
    \/ max_concurrent < 1
    \/ max_per_window # None /\ max_per_window < 1
    \/ window_seconds <= 0

\* Mutant of SemLocked: the test for "no permit left" is off by one.
SemLockedOffByOne(L) == L.value < 0 \/ L.sem_waiters # <<>>

\* asyncio.Semaphore.locked(): no permit left, or somebody queued before us.
SemLocked(L) == L.value = 0 \/ L.sem_waiters # <<>>

\* asyncio.Semaphore._wake_up_next: the first queued waiter that has not been
\* woken yet, or 0.
RECURSIVE FirstWaiting(_, _)
FirstWaiting(q, pcs) ==
    IF q = <<>> THEN 0
    ELSE IF pcs[Head(q)] = "sem_wait" THEN Head(q)
    ELSE FirstWaiting(Tail(q), pcs)

\* A state fragment threaded through one segment: the limiter instances, the
\* tasks' positions and the permit ownership.
Frag(lims, pcs, perm) == [lims |-> lims, pc |-> pcs, permit |-> perm]

\* The woken waiters of a semaphore resume in the order in which they were
\* woken, which is their order in the queue (the event loop runs the
\* callbacks of their futures first in, first out): the first woken task of
\* the queue, or 0.
RECURSIVE FirstGranted(_, _)
FirstGranted(q, pcs) ==
    IF q = <<>> THEN 0
    ELSE IF pcs[Head(q)] = "sem_granted" THEN Head(q)
    ELSE FirstGranted(Tail(q), pcs)

\* Mutant of WakeUpNext: the permit goes to the waiter that queued last.
WakeUpLast(s, l) ==
    LET q   == s.lims[l].sem_waiters
        idx == {i \in DOMAIN q : s.pc[q[i]] = "sem_wait"}
    IN IF idx = {} THEN s
       ELSE LET w == q[CHOOSE i \in idx : \A j \in idx : j <= i] IN
            [s EXCEPT !.lims[l].value = @ - 1,
                      !.pc[w] = "sem_granted",
                      !.permit[w] = TRUE]

\* Mutant of WakeUpNext: the waiter is woken with a permit that is not taken
\* off the semaphore's value.
WakeUpNoDecrement(s, l) ==
    LET w == FirstWaiting(s.lims[l].sem_waiters, s.pc) IN
    IF w = 0 THEN s
    ELSE [s EXCEPT !.pc[w] = "sem_granted",
                   !.permit[w] = TRUE]

\* asyncio.Semaphore._wake_up_next on limiter l: hand one permit to the first
\* waiting task.
WakeUpNext(s, l) ==
    LET w == FirstWaiting(s.lims[l].sem_waiters, s.pc) IN
    IF w = 0 THEN s
    ELSE [s EXCEPT !.lims[l].value = @ - 1,
                   !.pc[w] = "sem_granted",
                   !.permit[w] = TRUE]

\* Mutant of SemRelease: the permit is returned and nobody is woken.
SemReleaseNoWake(s, l) == [s EXCEPT !.lims[l].value = @ + 1]

\* asyncio.Semaphore.release(): _value += 1, then _wake_up_next().
SemRelease(s, l) == WakeUpNext([s EXCEPT !.lims[l].value = @ + 1], l)

\* RateLimiter.release() on limiter l, called by task t.
Release(s, l, t) == SemRelease([s EXCEPT !.permit[t] = FALSE], l)

\* asyncio.Lock.release(): the first waiter, if any, becomes the owner.
LockRelease(s, l) ==
    IF s.lims[l].lock_waiters = <<>>
    THEN [s EXCEPT !.lims[l].lock_owner = 0]
    ELSE LET w == Head(s.lims[l].lock_waiters) IN
         [s EXCEPT !.lims[l].lock_owner = w,
                   !.lims[l].lock_waiters = Tail(@),
                   !.pc[w] = "lock_granted"]

\* while self._timestamps and now - self._timestamps[0] > self._window_seconds:
\*     self._timestamps.popleft()
RECURSIVE Evict(_, _, _)
Evict(ts, now, window_seconds) ==
    IF ts # <<>> /\ now - Head(ts) > window_seconds
    THEN Evict(Tail(ts), now, window_seconds)
    ELSE ts

\* Mutant of SleepTime: the sleep ends exactly when the oldest timestamp is
\* window_seconds old, which the strict eviction test does not evict.
SleepTimeNoEpsilon(window_seconds, now, oldest) ==
    window_seconds - (now - oldest)

\* sleep_time = self._window_seconds - (now - self._timestamps[0]) + 0.001
SleepTime(window_seconds, now, oldest) ==
    window_seconds - (now - oldest) + Epsilon

\* current_window_count at time now
WindowCount(L, now) ==
    Cardinality({i \in DOMAIN L.timestamps : now - L.timestamps[i] <= L.window_seconds})

\* self._timestamps.append(time.monotonic()), leaving `async with self._lock`
\* and returning from acquire(): task t is inside its protected block.  The
\* clock read for the appended timestamp is a later read than `now`.
RecordTimestamp(t, l, s) ==
    \E stamp \in clock..Min(clock + 1, MaxClock) :
        LET s1 == [s EXCEPT !.lims[l].timestamps = Append(@, stamp)]
            s2 == LockRelease(s1, l)
        IN /\ clock' = stamp
           /\ limiters' = s2.lims
           /\ pc' = [s2.pc EXCEPT ![t] = "body"]
           /\ permit' = s2.permit
           /\ acquire_log' = Append(acquire_log, <<l, stamp>>)
           /\ UNCHANGED wake_at

\* rate_limiter.py 109-126, entered holding the lock: evict, and either go to
\* sleep (still holding the lock) or record the timestamp and return.
WindowGate(t, l, s) ==
    LET now == clock
        L   == s.lims[l]
        ts1 == Evict(L.timestamps, now, L.window_seconds)
        s1  == [s EXCEPT !.lims[l].timestamps = ts1]
    IN IF Len(ts1) >= L.max_per_window
          /\ SleepTime(L.window_seconds, now, ts1[1]) > 0
       THEN /\ limiters' = s1.lims
            /\ pc' = [s1.pc EXCEPT ![t] = "sleeping"]
            /\ permit' = s1.permit
            /\ wake_at' = [wake_at EXCEPT ![t] =
                               now + SleepTime(L.window_seconds, now, ts1[1])]
            /\ UNCHANGED <<clock, acquire_log>>
       ELSE RecordTimestamp(t, l, s1)

\* rate_limiter.py 107-108, entered owning a semaphore permit: without a
\* window limit acquire() returns at once (no timestamp is recorded);
\* otherwise take the lock or queue for it.
AfterSemaphore(t, l, s) ==
    LET L == s.lims[l] IN
    IF L.max_per_window = None
    THEN /\ limiters' = s.lims
         /\ pc' = [s.pc EXCEPT ![t] = "body"]
         /\ permit' = s.permit
         /\ acquire_log' = Append(acquire_log, <<l, clock>>)
         /\ UNCHANGED <<clock, wake_at>>
    ELSE IF L.lock_owner = 0 /\ L.lock_waiters = <<>>
    THEN WindowGate(t, l, [s EXCEPT !.lims[l].lock_owner = t])
    ELSE /\ limiters' = [s.lims EXCEPT ![l].lock_waiters = Append(@, t)]
         /\ pc' = [s.pc EXCEPT ![t] = "lock_wait"]
         /\ permit' = s.permit
         /\ UNCHANGED <<clock, wake_at, acquire_log>>

\* Mutant of Acquire: the window gate comes first, the semaphore is not
\* awaited before it.
AcquireWindowFirst(t, l, lims) == AfterSemaphore(t, l, Frag(lims, pc, permit))

\* RateLimiter.acquire() from its first line, by task t on limiter l of the
\* instances lims: await self._semaphore.acquire(), fast path or queue.
Acquire(t, l, lims) ==
    LET s == Frag(lims, pc, permit) IN
    IF ~SemLocked(lims[l])
    THEN AfterSemaphore(t, l, [s EXCEPT !.lims[l].value = @ - 1, !.permit[t] = TRUE])
    ELSE /\ limiters' = [lims EXCEPT ![l].sem_waiters = Append(@, t)]
         /\ pc' = [pc EXCEPT ![t] = "sem_wait"]
         /\ UNCHANGED <<clock, wake_at, permit, acquire_log>>

\* ------------------------------------------------- tasks using one limiter

\* Tasks run freely unless the batch they belong to is being cancelled; a
\* stand-alone task ("free") can also be cancelled on its own.
CanStep == run # "cancelling"
CanCancel == run \in {"free", "cancelling"}

\* `async with limiter:` entered by stand-alone task t: __aenter__ awaits
\* acquire().  Tasks are interchangeable and enter in the order of their
\* numbers.
Enter(t) ==
    /\ run = "free"
    /\ pc[t] = "idle"
    /\ \A u \in Tasks : u < t => pc[u] # "idle"
    /\ \E l \in DOMAIN limiters :
        /\ lim' = [lim EXCEPT ![t] = l]
        /\ Acquire(t, l, limiters)
    /\ UNCHANGED <<last_exit, ctlVars, regVars, calls, batchVars>>

\* A waiter woken by the semaphore resumes in Semaphore.acquire(): it leaves
\* the queue, wakes the next waiter if a permit is left, and goes on to the
\* window gate.
SemResume(t) ==
    /\ CanStep
    /\ pc[t] = "sem_granted"
    /\ FirstGranted(limiters[lim[t]].sem_waiters, pc) = t
    /\ LET l  == lim[t]
           s0 == Frag([limiters EXCEPT ![l].sem_waiters = Remove(@, t)], pc, permit)
           s1 == IF s0.lims[l].value > 0 THEN WakeUpNext(s0, l) ELSE s0
       IN AfterSemaphore(t, l, s1)
    /\ UNCHANGED <<lim, last_exit, ctlVars, regVars, calls, batchVars>>

\* A waiter handed the lock resumes inside `async with self._lock`.
LockResume(t) ==
    /\ CanStep
    /\ pc[t] = "lock_granted"
    /\ WindowGate(t, lim[t], Frag(limiters, pc, permit))
    /\ UNCHANGED <<lim, last_exit, ctlVars, regVars, calls, batchVars>>

\* rate_limiter.py 120-126: asyncio.sleep is over; re-evict with a fresh
\* `now` and record the timestamp, with no second capacity check.
SleepWake(t) ==
    /\ CanStep
    /\ pc[t] = "sleeping"
    /\ clock >= wake_at[t]
    /\ LET l == lim[t]
           L == limiters[l]
           s == Frag([limiters EXCEPT ![l].timestamps = Evict(@, clock, L.window_seconds)],
                     pc, permit)
       IN RecordTimestamp(t, l, s)
    /\ UNCHANGED <<lim, last_exit, ctlVars, regVars, calls, batchVars>>

\* Mutant of Aexit: the permit is given back only when the block ends
\* without an exception.
AexitOnReturnOnly(s, t, how) ==
    IF how = "return" THEN Release(s, lim[t], t) ELSE s

\* Mutant of Aexit: the release goes to the limiter the node has installed
\* now, not to the one the block was entered on.
AexitOnInstalled(s, t, how) ==
    Release(s, IF node.kind = "adaptive" /\ node.limiter \in DOMAIN s.lims
               THEN node.limiter ELSE lim[t], t)

\* Mutant of Aexit: a block that did not return takes its timestamp out of
\* the window history again.
AexitForgetsFailure(s, t, how) ==
    LET ts == s.lims[lim[t]].timestamps
        s1 == IF how # "return" /\ ts # <<>>
              THEN [s EXCEPT !.lims[lim[t]].timestamps = SubSeq(ts, 1, Len(ts) - 1)]
              ELSE s
    IN Release(s1, lim[t], t)

\* Mutant of Aexit: the release goes to the limiter registered now under the
\* name the call site used, not to the one the block was entered on.
AexitOnRegistered(s, t, how) ==
    Release(s, IF site[t] \in DOMAIN registry THEN registry[site[t]] ELSE lim[t], t)

\* RateLimiter.__aexit__ for task t, whatever ended its block: release() on
\* the instance the `async with` statement bound.
Aexit(s, t, how) == Release(s, lim[t], t)

\* The protected block of stand-alone task t ends: it returns, raises, or the
\* task is cancelled while inside it.
ExitBlock(t) ==
    /\ run = "free"
    /\ pc[t] = "body"
    /\ \E how \in {"return", "raise", "cancel"} :
        LET s == Aexit(Frag(limiters, pc, permit), t, how) IN
        /\ limiters' = s.lims
        /\ pc' = [s.pc EXCEPT ![t] = "done"]
        /\ permit' = s.permit
        /\ last_exit' = how
    /\ UNCHANGED <<clock, lim, wake_at, acquire_log, ctlVars, regVars, calls, batchVars>>

\* The task is cancelled while suspended in Semaphore.acquire().  A waiter
\* not yet woken just leaves the queue; one already woken gives the permit
\* back (asyncio does that itself).
CancelAtSemaphore(t) ==
    /\ CanCancel
    /\ pc[t] \in {"sem_wait", "sem_granted"}
    /\ LET l  == lim[t]
           s0 == Frag([limiters EXCEPT ![l].sem_waiters = Remove(@, t)], pc, permit)
           s1 == IF pc[t] = "sem_granted" THEN Release(s0, l, t) ELSE s0
       IN /\ limiters' = s1.lims
          /\ pc' = [s1.pc EXCEPT ![t] = "cancelled"]
          /\ permit' = s1.permit
    /\ UNCHANGED <<clock, lim, wake_at, last_exit, acquire_log, ctlVars, regVars, calls, batchVars>>

\* What acquire() does with the lock when CancelledError reaches task t
\* after line 104: `async with self._lock` drops the queue entry or releases
\* the lock.  Nothing in acquire() or __aenter__ gives the semaphore permit
\* back, and __aexit__ does not run because __aenter__ did not return.
CancelledInAcquire(s, t) ==
    IF s.pc[t] = "lock_wait"
    THEN [s EXCEPT !.lims[lim[t]].lock_waiters = Remove(@, t)]
    ELSE LockRelease(s, lim[t])

\* The task is cancelled inside acquire() while waiting for the lock, or
\* sleeping while holding it.
CancelAtWindow(t) ==
    /\ CanCancel
    /\ pc[t] \in {"lock_wait", "lock_granted", "sleeping"}
    /\ LET s == CancelledInAcquire(Frag(limiters, pc, permit), t)
       IN /\ limiters' = s.lims
          /\ pc' = [s.pc EXCEPT ![t] = "cancelled"]
          /\ permit' = s.permit
    /\ UNCHANGED <<clock, lim, wake_at, last_exit, acquire_log, ctlVars, regVars, calls, batchVars>>

\* Time passes.  The clock is only ever compared with recorded timestamps,
\* so it is left alone while no limiter has one.
Tick ==
    /\ clock < MaxClock
    /\ \E l \in DOMAIN limiters : limiters[l].timestamps # <<>>
    /\ clock' = clock + 1
    /\ UNCHANGED <<limiters, pc, lim, wake_at, permit, last_exit, acquire_log,
                   ctlVars, regVars, calls, batchVars>>

\* No node, no flow controller, no batch.
NoNode == [kind |-> "none"]
NoFlow == [kind |-> "none"]

\* An item task that has not finished has no result.
NoResult == [kind |-> "none", val |-> 0]

\* An instance that has not started the batch of its node: no item started,
\* no user-function call in flight, no limiter of its own.
NoCalls == [started |-> 0, running |-> 0, limiter |-> <<>>]

\* A task that took no limiter from the registry; no registry call yet.
NoSite == ""
NoCall == [op |-> "none", name |-> "", cfg |-> <<>>, replace |-> FALSE, raised |-> "none", value |-> 0,
           created |-> FALSE, tick |-> 0]

InitTasks(p) ==
    /\ clock = 0
    /\ pc = [t \in Tasks |-> p]
    /\ lim = [t \in Tasks |-> 0]
    /\ wake_at = [t \in Tasks |-> 0]
    /\ permit = [t \in Tasks |-> FALSE]
    /\ last_exit = "none"
    /\ acquire_log = <<>>
    /\ task_result = [t \in Tasks |-> NoResult]
    /\ items = <<>>
    /\ results = <<>>
    /\ overtaken = FALSE
    /\ cur_retry = [t \in Tasks |-> 0]
    /\ attempt_hit = [t \in Tasks |-> FALSE]
    /\ site = [t \in Tasks |-> NoSite]
    /\ last_call = NoCall
    /\ calls = [t \in Tasks |-> NoCalls]

\* One RateLimiter, constructed with any valid configuration, and tasks that
\* have not started.
InitLimiter ==
    /\ InitTasks("idle")
    /\ registry = <<>>
    /\ \E m \in 1..MaxConcurrent, n \in {None} \cup 1..MaxPerWindow, w \in 1..MaxWindow :
          limiters = (1 :> RateLimiter(m, n, w))
    /\ node = NoNode
    /\ flow = NoFlow
    /\ run = "free"

NextLimiter ==
    \/ \E t \in Tasks : Enter(t)
    \/ \E t \in Tasks : SemResume(t)
    \/ \E t \in Tasks : LockResume(t)
    \/ \E t \in Tasks : SleepWake(t)
    \/ \E t \in Tasks : ExitBlock(t)
    \/ \E t \in Tasks : CancelAtSemaphore(t)
    \/ \E t \in Tasks : CancelAtWindow(t)
    \/ Tick

SpecLimiter == InitLimiter /\ [][NextLimiter]_vars

\* The latest time at which the j-th task admitted by a limiter of n entries
\* per window of w can have recorded its timestamp, when time passes only
\* while a task sleeps: the first n record at once, each a clock read later;
\* a later one sleeps until the n-th last timestamp is w + Epsilon old.
RECURSIVE LatestStamp(_, _, _)
LatestStamp(j, n, w) ==
    IF j <= n THEN j
    ELSE Max(LatestStamp(j - 1, n, w), LatestStamp(j - n, n, w) + w + Epsilon) + 1

\* The configurations with which every sleep of MaxTasks tasks ends within
\* the modelled time.
LiveConfigs ==
    {c \in [max_concurrent : 1..MaxConcurrent, max_per_window : {None} \cup 1..MaxPerWindow,
            window_seconds : 1..MaxWindow] :
        \/ c.max_per_window = None
        \/ MaxTasks <= c.max_per_window
        \/ LatestStamp(MaxTasks - c.max_per_window, c.max_per_window, c.window_seconds)
               + c.window_seconds + Epsilon <= MaxClock}

\* Time passes while a task sleeps in acquire().
TickLive ==
    /\ clock < MaxClock
    /\ \E t \in Tasks : pc[t] = "sleeping" /\ clock < wake_at[t]
    /\ clock' = clock + 1
    /\ UNCHANGED <<limiters, pc, lim, wake_at, permit, last_exit, acquire_log,
                   ctlVars, regVars, calls, batchVars>>

\* One RateLimiter shared by tasks none of which is cancelled.
InitLive ==
    /\ InitTasks("idle")
    /\ registry = <<>>
    /\ \E c \in LiveConfigs :
          limiters = (1 :> RateLimiter(c.max_concurrent, c.max_per_window, c.window_seconds))
    /\ node = NoNode
    /\ flow = NoFlow
    /\ run = "free"

NextLive ==
    \/ \E t \in Tasks : Enter(t)
    \/ \E t \in Tasks : SemResume(t)
    \/ \E t \in Tasks : LockResume(t)
    \/ \E t \in Tasks : SleepWake(t)
    \/ \E t \in Tasks : ExitBlock(t)
    \/ TickLive

\* The event loop runs every task that can run, every task that is inside its
\* block leaves it, and time advances.
FairLive ==
    /\ \A t \in Tasks : WF_vars(Enter(t))
    /\ \A t \in Tasks : WF_vars(SemResume(t))
    /\ \A t \in Tasks : WF_vars(LockResume(t))
    /\ \A t \in Tasks : WF_vars(SleepWake(t))
    /\ \A t \in Tasks : WF_vars(ExitBlock(t))
    /\ WF_vars(TickLive)

SpecLive == InitLive /\ [][NextLive]_vars /\ FairLive

\* Mutant of LimiterReset: the limiter is made anew, semaphore included.
LimiterResetAll(L) == RateLimiter(L.max_concurrent, L.max_per_window, L.window_seconds)

\* Mutant of LimiterReset: the history is kept.
LimiterResetNothing(L) == L

\* RateLimiter.reset: self._timestamps.clear()
LimiterReset(L) == [L EXCEPT !.timestamps = <<>>]

\* limiter.reset() is called while tasks use the limiter, which has a
\* history to clear.
ResetLimiter ==
    /\ run = "free"
    /\ \E l \in DOMAIN limiters :
        /\ limiters[l].timestamps # <<>>
        /\ limiters' = [limiters EXCEPT ![l] = LimiterReset(@)]
        /\ last_call' = [NoCall EXCEPT !.op = "limiter_reset", !.value = l,
                                       !.tick = 1 - last_call.tick]
    /\ UNCHANGED <<clock, pc, lim, wake_at, permit, last_exit, acquire_log, ctlVars,
                   batchVars, registry, site, calls>>

\* One RateLimiter with a window limit, and tasks that have not started.
InitReset ==
    /\ InitTasks("idle")
    /\ registry = <<>>
    /\ \E m \in 1..MaxConcurrent, n \in 1..MaxPerWindow :
          limiters = (1 :> RateLimiter(m, n, WindowSeconds))
    /\ node = NoNode
    /\ flow = NoFlow
    /\ run = "free"

\* Tasks sharing one limiter that is reset now and then; no task is cancelled.
NextReset ==
    \/ \E t \in Tasks : Enter(t)
    \/ \E t \in Tasks : SemResume(t)
    \/ \E t \in Tasks : LockResume(t)
    \/ \E t \in Tasks : SleepWake(t)
    \/ \E t \in Tasks : ExitBlock(t)
    \/ ResetLimiter
    \/ Tick

SpecReset == InitReset /\ [][NextReset]_vars

\* ---------------------------------------------------- adaptive controllers

\* A factor is a fraction <<numerator, denominator>>; int(c * factor) is the
\* floor of the product (c and the factor are positive).
IntMul(c, factor) == (c * factor[1]) \div factor[2]

BackoffFactors == {<<1, 2>>, <<3, 4>>}
RecoveryFactors == {<<6, 5>>, <<3, 2>>, <<2, 1>>}

\* The smallest identity not in use.
FreshId(lims) ==
    CHOOSE i \in 1..(Cardinality(DOMAIN lims) + 1) :
        /\ i \notin DOMAIN lims
        /\ \A j \in 1..(i - 1) : j \in DOMAIN lims

\* Limiter instances no longer referenced by an executor or by a task that
\* can still use them are gone.
Collect(lims, n, f, pcs) ==
    LET refs == (IF n.kind = "none" THEN {} ELSE {n.limiter})
                \cup (IF f.kind = "none" THEN {} ELSE {f.flow_limiter})
                \cup {lim[t] : t \in {u \in Tasks :
                                pcs[u] \notin {"none", "idle", "done", "cancelled"}}}
    IN [l \in DOMAIN lims \cap refs |-> lims[l]]

\* ThrottledParallelBatchNode.__init__ on self: max_retries goes to the
\* AsyncNode, a keyword argument that is not None overrides the attribute; no
\* limiter yet.
ThrottledInit(self, max_retries, max_concurrent, max_per_minute) ==
    [self EXCEPT
        !.max_retries = max_retries,
        !.max_concurrent = IF max_concurrent # None THEN max_concurrent ELSE @,
        !.max_per_minute = IF max_per_minute # None THEN max_per_minute ELSE @,
        !.limiter = 0]

\* ThrottledParallelBatchNode(max_retries, max_concurrent=..., max_per_minute=...)
ThrottledParallelBatchNode(max_retries, max_concurrent, max_per_minute) ==
    ThrottledInit([kind |-> "throttled", max_retries |-> 1, max_concurrent |-> 5,
                   max_per_minute |-> None, limiter |-> 0],
                  max_retries, max_concurrent, max_per_minute)

\* AdaptiveThrottledNode.__init__: the adaptive attributes are set, then the
\* parent's __init__ is called with max_concurrent=self.initial_concurrent,
\* which assigns self.max_concurrent again.  ceiling keeps the max_concurrent
\* the caller asked for.
AdaptiveThrottledNode(max_retries, initial_concurrent, min_concurrent, max_concurrent, backoff_factor, recovery_threshold, recovery_factor, max_per_minute) ==
    LET self == [kind |-> "adaptive",
                 max_retries |-> 1,
                 initial_concurrent |-> initial_concurrent,
                 min_concurrent |-> min_concurrent,
                 max_concurrent |-> max_concurrent,
                 ceiling |-> max_concurrent,
                 backoff_factor |-> backoff_factor,
                 recovery_threshold |-> recovery_threshold,
                 recovery_factor |-> recovery_factor,
                 max_per_minute |-> None,
                 limiter |-> 0,
                 current_concurrent |-> initial_concurrent,
                 consecutive_successes |-> 0,
                 total_rate_limits |-> 0,
                 total_successes |-> 0]
    IN ThrottledInit(self, max_retries, self.initial_concurrent, max_per_minute)

\* The `limiter` property of the node: created on first access from
\* self.max_concurrent and self.max_per_minute.
NodeLimiter(n, lims) ==
    IF n.limiter # 0
    THEN [node |-> n, limiters |-> lims, id |-> n.limiter]
    ELSE LET id == FreshId(lims) IN
         [node |-> [n EXCEPT !.limiter = id],
          limiters |-> lims @@ (id :> RateLimiter(n.max_concurrent, n.max_per_minute,
                                                  WindowSeconds)),
          id |-> id]

\* Mutant of BackoffLevel: the floor min_concurrent is forgotten.
BackoffLevelNoFloor(current, floor, factor) == IntMul(current, factor)

\* Mutant of BackoffLevel: the product is rounded up instead of truncated.
BackoffLevelRoundUp(current, floor, factor) ==
    Max(floor, (current * factor[1] + factor[2] - 1) \div factor[2])

\* max(self.min_concurrent, int(self._current_concurrent * self.backoff_factor))
BackoffLevel(current, floor, factor) == Max(floor, IntMul(current, factor))

\* min(self.max_concurrent, int(self._current_concurrent * self.recovery_factor))
RecoveryLevel(current, ceiling, factor) == Min(ceiling, IntMul(current, factor))

\* Mutant of NodeSwap: the limiter in use is resized in place, for the tasks
\* already on it too.
NodeSwapInPlace(n, lims) ==
    IF n.limiter \in DOMAIN lims
    THEN [node |-> n,
          limiters |-> [lims EXCEPT ![n.limiter].max_concurrent = n.current_concurrent]]
    ELSE [node |-> n, limiters |-> lims]

\* The node's limiter is replaced by a new RateLimiter of the current level.
NodeSwap(n, lims) ==
    LET id == FreshId(lims) IN
    [node |-> [n EXCEPT !.limiter = id],
     limiters |-> lims @@ (id :> RateLimiter(n.current_concurrent, n.max_per_minute,
                                             WindowSeconds))]

\* AdaptiveThrottledNode._on_rate_limit.  The body under _adaptive_lock has
\* no await, so the lock is always free when a task arrives.
NodeOnRateLimit(n, lims) ==
    LET n1 == [n EXCEPT
                 !.current_concurrent =
                     BackoffLevel(n.current_concurrent, n.min_concurrent, n.backoff_factor),
                 !.consecutive_successes = 0,
                 !.total_rate_limits = @ + 1]
    IN IF n1.current_concurrent # n.current_concurrent
       THEN NodeSwap(n1, lims)
       ELSE [node |-> n1, limiters |-> lims]

\* Mutant of NodeOnSuccess: the recovery step writes the counters back from
\* the values read before the increment (a lost update).
NodeOnSuccessLostUpdate(n, lims) ==
    LET n1 == [n EXCEPT !.consecutive_successes = @ + 1, !.total_successes = @ + 1]
    IN IF n1.consecutive_successes >= n.recovery_threshold
       THEN LET n2 == [n EXCEPT
                         !.current_concurrent =
                             RecoveryLevel(n.current_concurrent, n.max_concurrent,
                                           n.recovery_factor),
                         !.consecutive_successes = 0]
            IN IF n2.current_concurrent # n.current_concurrent
               THEN NodeSwap(n2, lims)
               ELSE [node |-> n2, limiters |-> lims]
       ELSE [node |-> n1, limiters |-> lims]

\* AdaptiveThrottledNode._on_success
NodeOnSuccess(n, lims) ==
    LET n1 == [n EXCEPT !.consecutive_successes = @ + 1, !.total_successes = @ + 1]
    IN IF n1.consecutive_successes >= n.recovery_threshold
       THEN LET n2 == [n1 EXCEPT
                         !.current_concurrent =
                             RecoveryLevel(n.current_concurrent, n.max_concurrent,
                                           n.recovery_factor),
                         !.consecutive_successes = 0]
            IN IF n2.current_concurrent # n.current_concurrent
               THEN NodeSwap(n2, lims)
               ELSE [node |-> n2, limiters |-> lims]
       ELSE [node |-> n1, limiters |-> lims]

\* Mutant of NodeResetAdaptiveState: the limiter in use is kept.
NodeResetKeepsLimiter(n) ==
    [n EXCEPT !.current_concurrent = n.initial_concurrent,
              !.consecutive_successes = 0,
              !.total_rate_limits = 0,
              !.total_successes = 0]

\* AdaptiveThrottledNode.reset_adaptive_state
NodeResetAdaptiveState(n) ==
    [n EXCEPT !.current_concurrent = n.initial_concurrent,
              !.consecutive_successes = 0,
              !.total_rate_limits = 0,
              !.total_successes = 0,
              !.limiter = 0]

\* AdaptiveThrottledBatchFlow.__init__: the parent's __init__ is not given
\* max_concurrent_flows, so the ceiling stays as configured.
AdaptiveThrottledBatchFlow(initial_concurrent_flows, min_concurrent_flows, max_concurrent_flows, backoff_factor, recovery_threshold, recovery_factor, max_flows_per_minute) ==
    [kind |-> "adaptive_flow",
     initial_concurrent_flows |-> initial_concurrent_flows,
     min_concurrent_flows |-> min_concurrent_flows,
     max_concurrent_flows |-> max_concurrent_flows,
     backoff_factor |-> backoff_factor,
     recovery_threshold |-> recovery_threshold,
     recovery_factor |-> recovery_factor,
     max_flows_per_minute |-> max_flows_per_minute,
     flow_limiter |-> 0,
     current_concurrent_flows |-> initial_concurrent_flows,
     consecutive_successes |-> 0,
     total_rate_limits |-> 0,
     completed_flows |-> 0,
     failed_flows |-> 0]

\* The flow_limiter property of the adaptive flow: created on first access
\* from _current_concurrent_flows.
FlowLimiter(f, lims) ==
    IF f.flow_limiter # 0
    THEN [flow |-> f, limiters |-> lims, id |-> f.flow_limiter]
    ELSE LET id == FreshId(lims) IN
         [flow |-> [f EXCEPT !.flow_limiter = id],
          limiters |-> lims @@ (id :> RateLimiter(f.current_concurrent_flows,
                                                  f.max_flows_per_minute, WindowSeconds)),
          id |-> id]

\* AdaptiveThrottledBatchFlow._on_rate_limit
FlowOnRateLimit(f) ==
    LET f1 == [f EXCEPT
                 !.current_concurrent_flows =
                     BackoffLevel(f.current_concurrent_flows, f.min_concurrent_flows,
                                  f.backoff_factor),
                 !.consecutive_successes = 0,
                 !.total_rate_limits = @ + 1]
    IN IF f1.current_concurrent_flows # f.current_concurrent_flows
       THEN [f1 EXCEPT !.flow_limiter = 0]
       ELSE f1

\* AdaptiveThrottledBatchFlow._on_success
FlowOnSuccess(f) ==
    LET f1 == [f EXCEPT !.consecutive_successes = @ + 1]
    IN IF f1.consecutive_successes >= f.recovery_threshold
       THEN LET f2 == [f1 EXCEPT
                         !.current_concurrent_flows =
                             RecoveryLevel(f.current_concurrent_flows,
                                           f.max_concurrent_flows, f.recovery_factor),
                         !.consecutive_successes = 0]
            IN IF f2.current_concurrent_flows # f.current_concurrent_flows
               THEN [f2 EXCEPT !.flow_limiter = 0]
               ELSE f2
       ELSE f1

\* AdaptiveThrottledBatchFlow.reset_adaptive_state, which ends with
\* reset_flow_limiter().
FlowResetAdaptiveState(f) ==
    [f EXCEPT !.current_concurrent_flows = f.initial_concurrent_flows,
              !.consecutive_successes = 0,
              !.total_rate_limits = 0,
              !.flow_limiter = 0,
              !.completed_flows = 0,
              !.failed_flows = 0]

\* await node._on_rate_limit()
NodeRateLimitEvent ==
    /\ node.kind = "adaptive"
    /\ node.total_rate_limits < MaxEvents
    /\ LET r == NodeOnRateLimit(node, limiters) IN
        /\ node' = r.node
        /\ limiters' = Collect(r.limiters, r.node, flow, pc)
    /\ last_call' = NoCall
    /\ UNCHANGED <<clock, pc, lim, wake_at, permit, last_exit, acquire_log, flow, registry, site, calls, batchVars>>

\* await node._on_success()
NodeSuccessEvent ==
    /\ node.kind = "adaptive"
    /\ node.total_successes < MaxEvents
    /\ LET r == NodeOnSuccess(node, limiters) IN
        /\ node' = r.node
        /\ limiters' = Collect(r.limiters, r.node, flow, pc)
    /\ last_call' = NoCall
    /\ UNCHANGED <<clock, pc, lim, wake_at, permit, last_exit, acquire_log, flow, registry, site, calls, batchVars>>

\* node.reset_adaptive_state()
NodeResetEvent ==
    /\ node.kind = "adaptive"
    /\ node' = NodeResetAdaptiveState(node)
    /\ limiters' = Collect(limiters, node', flow, pc)
    /\ last_call' = [NoCall EXCEPT !.op = "node_reset", !.value = node.current_concurrent]
    /\ UNCHANGED <<clock, pc, lim, wake_at, permit, last_exit, acquire_log, flow, registry, site, calls, batchVars>>

\* node.limiter read outside a batch
NodeLimiterAccess ==
    /\ node.kind = "adaptive"
    /\ LET r == NodeLimiter(node, limiters) IN
        /\ node' = r.node
        /\ limiters' = r.limiters
    /\ last_call' = NoCall
    /\ UNCHANGED <<clock, pc, lim, wake_at, permit, last_exit, acquire_log, flow, registry, site, calls, batchVars>>

\* await flow._on_rate_limit()
FlowRateLimitEvent ==
    /\ flow.kind = "adaptive_flow"
    /\ flow.total_rate_limits < MaxEvents
    /\ flow' = FlowOnRateLimit(flow)
    /\ limiters' = Collect(limiters, node, flow', pc)
    /\ last_call' = NoCall
    /\ UNCHANGED <<clock, pc, lim, wake_at, permit, last_exit, acquire_log, node, registry, site, calls, batchVars>>

\* await flow._on_success()
FlowSuccessEvent ==
    /\ flow.kind = "adaptive_flow"
    /\ flow' = FlowOnSuccess(flow)
    /\ limiters' = Collect(limiters, node, flow', pc)
    /\ last_call' = NoCall
    /\ UNCHANGED <<clock, pc, lim, wake_at, permit, last_exit, acquire_log, node, registry, site, calls, batchVars>>

\* flow.reset_adaptive_state()
FlowResetEvent ==
    /\ flow.kind = "adaptive_flow"
    /\ flow' = FlowResetAdaptiveState(flow)
    /\ limiters' = Collect(limiters, node, flow', pc)
    /\ last_call' = [NoCall EXCEPT !.op = "flow_reset", !.value = flow.current_concurrent_flows]
    /\ UNCHANGED <<clock, pc, lim, wake_at, permit, last_exit, acquire_log, node, registry, site, calls, batchVars>>

\* flow.flow_limiter read outside a run
FlowLimiterAccess ==
    /\ flow.kind = "adaptive_flow"
    /\ LET r == FlowLimiter(flow, limiters) IN
        /\ flow' = r.flow
        /\ limiters' = r.limiters
    /\ last_call' = NoCall
    /\ UNCHANGED <<clock, pc, lim, wake_at, permit, last_exit, acquire_log, node, registry, site, calls, batchVars>>

\* The configurations the adaptive claims are about: min <= initial <= max,
\* 0 < backoff_factor < 1, recovery_factor > 1, recovery_threshold >= 1.
AdaptiveConfigs ==
    {c \in [initial : 1..MaxCeiling, min : 1..MaxCeiling, max : 1..MaxCeiling,
            backoff : BackoffFactors, threshold : 1..MaxThreshold,
            recovery : RecoveryFactors] :
        c.min <= c.initial /\ c.initial <= c.max}

\* One adaptive controller, a node's or a flow's, freshly constructed; no
\* batch is running.
InitAdaptive ==
    /\ InitTasks("none")
    /\ registry = <<>>
    /\ limiters = <<>>
    /\ run = "idle"
    /\ \E c \in AdaptiveConfigs :
        \/ /\ node = AdaptiveThrottledNode(1, c.initial, c.min, c.max, c.backoff,
                                           c.threshold, c.recovery, None)
           /\ flow = NoFlow
        \/ /\ node = NoNode
           /\ flow = AdaptiveThrottledBatchFlow(c.initial, c.min, c.max, c.backoff,
                                                c.threshold, c.recovery, None)

NextAdaptive ==
    \/ NodeRateLimitEvent
    \/ NodeSuccessEvent
    \/ NodeResetEvent
    \/ NodeLimiterAccess
    \/ FlowRateLimitEvent
    \/ FlowSuccessEvent
    \/ FlowResetEvent
    \/ FlowLimiterAccess

SpecAdaptive == InitAdaptive /\ [][NextAdaptive]_vars

\* ThrottledParallelBatchNode.reset_limiter, inherited by the adaptive node:
\* self._limiter = None.
NodeResetLimiter(n) == [n EXCEPT !.limiter = 0]

\* ThrottledAsyncParallelBatchFlow.reset_flow_limiter, inherited by the
\* adaptive flow: self._flow_limiter = None.
FlowResetFlowLimiter(f) == [f EXCEPT !.flow_limiter = 0]

\* node.reset_limiter()
NodeResetLimiterEvent ==
    /\ node.kind = "adaptive"
    /\ node' = NodeResetLimiter(node)
    /\ limiters' = Collect(limiters, node', flow, pc)
    /\ last_call' = [NoCall EXCEPT !.op = "node_reset_limiter"]
    /\ UNCHANGED <<clock, pc, lim, wake_at, permit, last_exit, acquire_log, flow, registry, site, calls, batchVars>>

\* flow.reset_flow_limiter()
FlowResetLimiterEvent ==
    /\ flow.kind = "adaptive_flow"
    /\ flow' = FlowResetFlowLimiter(flow)
    /\ limiters' = Collect(limiters, node, flow', pc)
    /\ last_call' = [NoCall EXCEPT !.op = "flow_reset_limiter"]
    /\ UNCHANGED <<clock, pc, lim, wake_at, permit, last_exit, acquire_log, node, registry, site, calls, batchVars>>

\* One adaptive controller driven by outcomes, resets of its state, resets
\* of its limiter and reads of its limiter, in any order.
NextResize ==
    \/ NodeRateLimitEvent
    \/ NodeSuccessEvent
    \/ NodeResetEvent
    \/ NodeResetLimiterEvent
    \/ NodeLimiterAccess
    \/ FlowRateLimitEvent
    \/ FlowSuccessEvent
    \/ FlowResetEvent
    \/ FlowResetLimiterEvent
    \/ FlowLimiterAccess

SpecResize == InitAdaptive /\ [][NextResize]_vars

\* The class-level defaults of AdaptiveThrottledNode and of
\* AdaptiveThrottledBatchFlow: initial 5, floor 1, ceiling 20, backoff_factor
\* 0.5, recovery_threshold 10, recovery_factor 1.2.
DefaultInitialConcurrent == 5
DefaultMinConcurrent == 1
DefaultMaxConcurrent == 20
DefaultRecoveryThreshold == 10
DefaultBackoffFactor == <<1, 2>>
DefaultRecoveryFactor == <<6, 5>>

\* await node._on_success(), within a stream of successes long enough for two
\* recovery steps.
NodeSuccessStreamEvent ==
    /\ node.kind = "adaptive"
    /\ node.total_successes < 2 * DefaultRecoveryThreshold
    /\ LET r == NodeOnSuccess(node, limiters) IN
        /\ node' = r.node
        /\ limiters' = Collect(r.limiters, r.node, flow, pc)
    /\ last_call' = NoCall
    /\ UNCHANGED <<clock, pc, lim, wake_at, permit, last_exit, acquire_log, flow, registry, site, calls, batchVars>>

\* An adaptive node or flow constructed without arguments.
InitDefaults ==
    /\ InitTasks("none")
    /\ registry = <<>>
    /\ limiters = <<>>
    /\ run = "idle"
    /\ \/ /\ node = AdaptiveThrottledNode(1, DefaultInitialConcurrent, DefaultMinConcurrent,
                                           DefaultMaxConcurrent, DefaultBackoffFactor,
                                           DefaultRecoveryThreshold, DefaultRecoveryFactor,
                                           None)
          /\ flow = NoFlow
       \/ /\ node = NoNode
          /\ flow = AdaptiveThrottledBatchFlow(DefaultInitialConcurrent,
                                               DefaultMinConcurrent, DefaultMaxConcurrent,
                                               DefaultBackoffFactor,
                                               DefaultRecoveryThreshold,
                                               DefaultRecoveryFactor, None)

NextDefaults ==
    \/ NodeRateLimitEvent
    \/ NodeSuccessStreamEvent
    \/ FlowRateLimitEvent
    \/ FlowSuccessEvent

SpecDefaults == InitDefaults /\ [][NextDefaults]_vars

\* ------------------------------------------------- the throttled batch node

\* exec_async of the node under test: the user function (the tests' nodes
\* return item * 2).
UserFn(item) == 2 * item

\* Mutant of TaskItem: every coroutine sees the last item of the batch (a
\* late-bound loop variable).
TaskItemLateBound(its, t) == its[Len(its)]

\* tasks = [self._throttled_exec(item) for item in items]: the item of the
\* t-th coroutine.
TaskItem(its, t) == its[t]

\* asyncio.gather(*tasks): the children's results in the order of the
\* awaitables.
Gather(tr, n) == [i \in 1..n |-> tr[i].val]

\* The exceptions a user function raises in the model, by name: a plain
\* Exception whose text names a rate limit, a plain exception whose text does
\* not, RateLimitHit() with its default message and RateLimitHit with a
\* message of the caller's.
Exceptions == {"rate_limit_error", "error", "rate_limit_hit", "rate_limit_hit_custom"}

\* Mutant of IsRateLimitHit: the exception is recognised by its text.
IsRateLimitHitByText(e) == e \in {"rate_limit_error", "rate_limit_hit"}

\* isinstance(e, RateLimitHit)
IsRateLimitHit(e) == e \in {"rate_limit_hit", "rate_limit_hit_custom"}

\* str(exc), as its sequence of words.
ExcText(e) ==
    CASE e = "rate_limit_error"      -> <<"429", "Too", "Many", "Requests">>
      [] e = "error"                 -> <<"Intentional", "error">>
      [] e = "rate_limit_hit"        -> <<"Rate", "limit", "hit">>
      [] e = "rate_limit_hit_custom" -> <<"slow", "down">>

\* str.lower(), word by word.
LowerWord(w) ==
    CASE w = "Too"         -> "too"
      [] w = "Many"        -> "many"
      [] w = "Requests"    -> "requests"
      [] w = "Intentional" -> "intentional"
      [] w = "Rate"        -> "rate"
      [] OTHER             -> w
Lower(text) == [i \in DOMAIN text |-> LowerWord(text[i])]

\* The indicators of is_rate_limit_error, as sequences of words.
Indicators ==
    {<<"429">>, <<"rate", "limit">>, <<"rate_limit">>, <<"too", "many", "requests">>,
     <<"quota", "exceeded">>, <<"throttl">>}

\* `indicator in err_str`: the words of the indicator occur in a row.
Contains(text, ind) ==
    \E i \in 1..(Len(text) - Len(ind) + 1) : SubSeq(text, i, i + Len(ind) - 1) = ind

\* Mutant of IsRateLimitError: every exception counts as a rate limit.
IsRateLimitErrorAlways(e) == TRUE

\* ThrottledParallelBatchNode.is_rate_limit_error: the lower-cased text of
\* the exception holds one of the indicators.
IsRateLimitError(e) == \E ind \in Indicators : Contains(Lower(ExcText(e)), ind)

ItemTasks == {t \in Tasks : t <= Len(items)}
Finished(t) == pc[t] \in {"done", "cancelled"}

\* ThrottledParallelBatchNode._exec(items): an empty batch returns [] at
\* once; otherwise one coroutine per item is handed to asyncio.gather.
ExecBatch ==
    /\ node.kind # "none"
    /\ run = "idle"
    /\ \E n \in 0..MaxTasks :
        /\ items' = [i \in 1..n |-> i]
        /\ IF n = 0
           THEN /\ run' = "returned"
                /\ results' = <<>>
                /\ pc' = pc
           ELSE /\ run' = "running"
                /\ results' = results
                /\ pc' = [t \in Tasks |-> IF t <= n THEN "idle" ELSE "none"]
    /\ UNCHANGED <<clock, limiters, lim, wake_at, permit, last_exit, acquire_log,
                   ctlVars, regVars, calls, task_result, overtaken, cur_retry, attempt_hit>>

\* The `limiter` property has to make the limiter and RateLimiter.__init__
\* rejects the node's attributes.
NodeLimiterRaises(n) ==
    /\ n.limiter = 0
    /\ RateLimiterRejects(n.max_concurrent, n.max_per_minute, WindowSeconds)

\* _throttled_exec(item) starts and `self.limiter` raises ValueError: the
\* item task ends with it, before anything is acquired.
ItemEnterRaises(t) ==
    /\ node.kind # "none"
    /\ run = "running"
    /\ pc[t] = "idle"
    /\ \A u \in Tasks : u < t => pc[u] # "idle"
    /\ NodeLimiterRaises(node)
    /\ pc' = [pc EXCEPT ![t] = "done"]
    /\ task_result' = [task_result EXCEPT ![t] = [kind |-> "ValueError", val |-> 0]]
    /\ UNCHANGED <<clock, limiters, lim, wake_at, permit, last_exit, acquire_log, ctlVars,
                   regVars, calls, items, run, results, overtaken, cur_retry, attempt_hit>>

\* _throttled_exec(item) starts: `async with self.limiter:` reads the
\* limiter property (creating the limiter on first use) and awaits acquire().
\* The children of gather take their first steps in the order of the items.
ItemEnter(t) ==
    /\ node.kind # "none"
    /\ run = "running"
    /\ pc[t] = "idle"
    /\ \A u \in Tasks : u < t => pc[u] # "idle"
    /\ ~NodeLimiterRaises(node)
    /\ LET r == NodeLimiter(node, limiters) IN
        /\ node' = r.node
        /\ lim' = [lim EXCEPT ![t] = r.id]
        /\ Acquire(t, r.id, r.limiters)
    /\ UNCHANGED <<last_exit, flow, regVars, calls, batchVars>>

\* The item task t ends with result res after the controller update upd (the
\* node and the limiters it leaves): __aexit__ releases the permit on the
\* limiter bound at entry.  The retry loop's counter goes with the coroutine.
ItemEnds(t, how, res, upd) ==
    LET s   == Aexit(Frag(upd.limiters, pc, permit), t, how)
        pc1 == [s.pc EXCEPT ![t] = "done"]
    IN /\ node' = upd.node
       /\ limiters' = Collect(s.lims, upd.node, flow, pc1)
       /\ pc' = pc1
       /\ permit' = s.permit
       /\ task_result' = [task_result EXCEPT ![t] = res]
       /\ overtaken' = (overtaken \/ \E u \in ItemTasks : u < t /\ ~Finished(u))
       /\ cur_retry' = [cur_retry EXCEPT ![t] = 0]
       /\ UNCHANGED <<clock, lim, wake_at, last_exit, acquire_log, flow, regVars, calls, items, run,
                      results, attempt_hit>>

\* The user function returns for item t.  The adaptive node awaits
\* _on_success() before returning the result.
ItemSucceed(t) ==
    /\ node.kind # "none"
    /\ run \in {"running", "raised"}
    /\ pc[t] = "body"
    /\ ItemEnds(t, "return", [kind |-> "ok", val |-> UserFn(TaskItem(items, t))],
                IF node.kind = "adaptive"
                THEN NodeOnSuccess(node, limiters)
                ELSE [node |-> node, limiters |-> limiters])

\* Mutant of ItemRetry: every further attempt is recorded in the window like
\* an acquisition of its own.
ItemRetryStamped(t) ==
    /\ node.kind # "none"
    /\ run \in {"running", "raised"}
    /\ pc[t] = "body"
    /\ cur_retry[t] < node.max_retries - 1
    /\ \E e \in Exceptions :
        /\ cur_retry' = [cur_retry EXCEPT ![t] = @ + 1]
        /\ attempt_hit' = [attempt_hit EXCEPT ![t] = @ \/ IsRateLimitError(e)]
    /\ limiters' = [limiters EXCEPT ![lim[t]].timestamps =
                        IF limiters[lim[t]].max_per_window # None
                        THEN Append(@, clock) ELSE @]
    /\ acquire_log' = IF limiters[lim[t]].max_per_window # None
                      THEN Append(acquire_log, <<lim[t], clock>>) ELSE acquire_log
    /\ UNCHANGED <<clock, pc, lim, wake_at, permit, last_exit, ctlVars, regVars, calls, items,
                   run, task_result, results, overtaken>>

\* An attempt of the user function fails for item t with attempts left: the
\* retry loop of AsyncNode._exec, which _throttled_exec awaits inside the
\* limiter's block, catches the exception and calls the user function again.
\* Nothing of it reaches _throttled_exec.
ItemRetry(t) ==
    /\ node.kind # "none"
    /\ run \in {"running", "raised"}
    /\ pc[t] = "body"
    /\ cur_retry[t] < node.max_retries - 1
    /\ \E e \in Exceptions :
        /\ cur_retry' = [cur_retry EXCEPT ![t] = @ + 1]
        /\ attempt_hit' = [attempt_hit EXCEPT ![t] = @ \/ IsRateLimitError(e)]
    /\ UNCHANGED <<limiterVars, ctlVars, regVars, calls, items, run, task_result, results, overtaken>>

\* The user function fails for good for item t (retries exhausted).  The
\* adaptive node awaits _on_rate_limit() when the exception looks like a rate
\* limit, and re-raises.
ItemFail(t) ==
    /\ node.kind # "none"
    /\ run \in {"running", "raised"}
    /\ pc[t] = "body"
    /\ cur_retry[t] = node.max_retries - 1
    /\ \E e \in Exceptions :
        ItemEnds(t, "raise", [kind |-> e, val |-> 0],
                 IF node.kind = "adaptive" /\ IsRateLimitError(e)
                 THEN NodeOnRateLimit(node, limiters)
                 ELSE [node |-> node, limiters |-> limiters])

\* The item task is cancelled inside its block; CancelledError is not an
\* Exception, so the adaptive node's handler does not see it.
ItemCancelInBody(t) ==
    /\ node.kind # "none"
    /\ run = "cancelling"
    /\ pc[t] = "body"
    /\ ItemEnds(t, "cancel", [kind |-> "cancelled", val |-> 0],
                [node |-> node, limiters |-> limiters])

\* await asyncio.gather(*tasks) returns: every child has returned.
GatherReturn ==
    /\ node.kind # "none"
    /\ run = "running"
    /\ \A t \in ItemTasks : task_result[t].kind = "ok"
    /\ run' = "returned"
    /\ results' = Gather(task_result, Len(items))
    /\ UNCHANGED <<limiterVars, ctlVars, regVars, calls, items, task_result, overtaken, cur_retry,
                   attempt_hit>>

\* await asyncio.gather(*tasks) raises: without return_exceptions the first
\* exception of a child is propagated at once; the other children are not
\* cancelled and keep running.
GatherRaise ==
    /\ node.kind # "none"
    /\ run = "running"
    /\ \A t \in ItemTasks : pc[t] # "idle"
    /\ \E t \in ItemTasks : task_result[t].kind \in Exceptions \cup {"ValueError"}
    /\ run' = "raised"
    /\ UNCHANGED <<limiterVars, ctlVars, regVars, calls, items, task_result, results, overtaken,
                   cur_retry, attempt_hit>>

\* The host cancels the task awaiting _exec: gather cancels every child; a
\* child that has not started never runs.
HostCancel ==
    /\ run = "running"
    /\ run' = "cancelling"
    /\ pc' = [t \in Tasks |-> IF pc[t] = "idle" THEN "cancelled" ELSE pc[t]]
    /\ UNCHANGED <<clock, limiters, lim, wake_at, permit, last_exit, acquire_log,
                   ctlVars, regVars, calls, items, task_result, results, overtaken, cur_retry,
                   attempt_hit>>

\* Every child has ended after the cancellation: _exec raises CancelledError.
GatherCancelled ==
    /\ run = "cancelling"
    /\ \A t \in ItemTasks : Finished(t)
    /\ run' = "cancelled"
    /\ UNCHANGED <<limiterVars, ctlVars, regVars, calls, items, task_result, results, overtaken,
                   cur_retry, attempt_hit>>

\* ------------------------------------------------ the throttled batch flows

\* ThrottledAsyncParallelBatchFlow.__init__: a keyword argument that is not
\* None overrides the class attribute; no limiter yet, statistics at zero.
ThrottledAsyncParallelBatchFlow(max_concurrent_flows, max_flows_per_minute) ==
    [kind |-> "throttled_flow",
     max_concurrent_flows |-> IF max_concurrent_flows # None
                              THEN max_concurrent_flows ELSE 5,
     max_flows_per_minute |-> max_flows_per_minute,
     flow_limiter |-> 0,
     completed_flows |-> 0,
     failed_flows |-> 0]

\* Mutant of ThrottledFlowLimiter: the limiter is not kept, every access
\* makes a new one.
ThrottledFlowLimiterNotKept(f, lims) ==
    LET id == FreshId(lims) IN
    [flow |-> [f EXCEPT !.flow_limiter = id],
     limiters |-> lims @@ (id :> RateLimiter(f.max_concurrent_flows,
                                             f.max_flows_per_minute, WindowSeconds)),
     id |-> id]

\* ThrottledAsyncParallelBatchFlow.flow_limiter: created on first access
\* from max_concurrent_flows.
ThrottledFlowLimiter(f, lims) ==
    IF f.flow_limiter # 0
    THEN [flow |-> f, limiters |-> lims, id |-> f.flow_limiter]
    ELSE LET id == FreshId(lims) IN
         [flow |-> [f EXCEPT !.flow_limiter = id],
          limiters |-> lims @@ (id :> RateLimiter(f.max_concurrent_flows,
                                                  f.max_flows_per_minute, WindowSeconds)),
          id |-> id]

\* self.flow_limiter, as the class of the flow defines it.
SelfFlowLimiter(f, lims) ==
    IF f.kind = "adaptive_flow" THEN FlowLimiter(f, lims) ELSE ThrottledFlowLimiter(f, lims)

\* _run_async(shared) up to the gather: prep_async gives the parameter
\* bundles, the statistics of the run are reset and one coroutine per bundle
\* is handed to asyncio.gather.
RunAsync ==
    /\ flow.kind # "none"
    /\ run = "idle"
    /\ \E n \in 0..MaxTasks :
        /\ items' = [i \in 1..n |-> i]
        /\ pc' = [t \in Tasks |-> IF t <= n THEN "idle" ELSE "none"]
    /\ flow' = [flow EXCEPT !.completed_flows = 0, !.failed_flows = 0]
    /\ run' = "running"
    /\ UNCHANGED <<clock, limiters, lim, wake_at, permit, last_exit, acquire_log,
                   node, regVars, calls, task_result, results, overtaken, cur_retry, attempt_hit>>

\* run_throttled(bp) / run_adaptive(bp) starts: `async with
\* self.flow_limiter:` reads the property and awaits acquire().
InstanceEnter(t) ==
    /\ flow.kind # "none"
    /\ run = "running"
    /\ pc[t] = "idle"
    /\ \A u \in Tasks : u < t => pc[u] # "idle"
    /\ LET r == SelfFlowLimiter(flow, limiters) IN
        /\ flow' = r.flow
        /\ lim' = [lim EXCEPT ![t] = r.id]
        /\ Acquire(t, r.id, r.limiters)
    /\ UNCHANGED <<last_exit, node, regVars, calls, batchVars>>

\* The flow instance t ends with result res, the flow being left as f1:
\* __aexit__ releases the permit on the limiter bound at entry.
InstanceEnds(t, how, res, f1) ==
    LET s   == Aexit(Frag(limiters, pc, permit), t, how)
        pc1 == [s.pc EXCEPT ![t] = "done"]
    IN /\ flow' = f1
       /\ limiters' = Collect(s.lims, node, f1, pc1)
       /\ pc' = pc1
       /\ permit' = s.permit
       /\ task_result' = [task_result EXCEPT ![t] = res]
       /\ overtaken' = (overtaken \/ \E u \in ItemTasks : u < t /\ ~Finished(u))
       /\ UNCHANGED <<clock, lim, wake_at, last_exit, acquire_log, node, regVars, calls, items, run,
                      results, cur_retry, attempt_hit>>

\* _orch_async returns for instance t: _completed_flows += 1, and the
\* adaptive flow awaits _on_success().
InstanceSucceed(t) ==
    /\ flow.kind # "none"
    /\ run = "running"
    /\ pc[t] = "body"
    /\ LET f1 == [flow EXCEPT !.completed_flows = @ + 1] IN
        InstanceEnds(t, "return", [kind |-> "ok", val |-> TaskItem(items, t)],
                     IF flow.kind = "adaptive_flow" THEN FlowOnSuccess(f1) ELSE f1)

\* _orch_async raises for instance t: _failed_flows += 1; the adaptive flow
\* awaits _on_rate_limit() when the exception is a RateLimitHit; re-raise.
InstanceFail(t) ==
    /\ flow.kind # "none"
    /\ run = "running"
    /\ pc[t] = "body"
    /\ \E e \in Exceptions :
        LET f1 == [flow EXCEPT !.failed_flows = @ + 1] IN
        InstanceEnds(t, "raise", [kind |-> e, val |-> 0],
                     IF flow.kind = "adaptive_flow" /\ IsRateLimitHit(e)
                     THEN FlowOnRateLimit(f1) ELSE f1)

\* The instance is cancelled inside its block: CancelledError is not an
\* Exception, no handler of run_throttled / run_adaptive sees it.
InstanceCancel(t) ==
    /\ flow.kind # "none"
    /\ run = "cancelling"
    /\ pc[t] = "body"
    /\ InstanceEnds(t, "cancel", [kind |-> "cancelled", val |-> 0], flow)

\* Mutant of FlowGatherReturn: gather without return_exceptions, the first
\* exception of an instance leaves the run.
FlowGatherBare ==
    /\ flow.kind # "none"
    /\ run = "running"
    /\ IF \E t \in ItemTasks : task_result[t].kind \in Exceptions
       THEN /\ run' = "raised"
            /\ results' = results
       ELSE /\ \A t \in ItemTasks : pc[t] = "done"
            /\ run' = "returned"
            /\ results' = [i \in 1..Len(items) |-> task_result[i]]
    /\ UNCHANGED <<limiterVars, ctlVars, regVars, calls, items, task_result, overtaken, cur_retry,
                   attempt_hit>>

\* asyncio.gather(..., return_exceptions=True) returns once every instance
\* has ended, exceptions in place; the list is kept in _flow_results and
\* post_async is called.
FlowGatherReturn ==
    /\ flow.kind # "none"
    /\ run = "running"
    /\ \A t \in ItemTasks : pc[t] = "done"
    /\ run' = "returned"
    /\ results' = [i \in 1..Len(items) |-> task_result[i]]
    /\ UNCHANGED <<limiterVars, ctlVars, regVars, calls, items, task_result, overtaken, cur_retry,
                   attempt_hit>>

\* ------------------------------------- a throttled node inside a throttled flow

\* The items of the batch the graph's node prepares in each flow instance.
NodeItems == MaxConcurrent + 1

\* The limiter of the copy of the graph's node that instance t runs (each
\* instance runs a shallow copy of the start node): the original's limiter
\* when it had one before the run, else the copy's own, made at its first
\* access.
CopyLimiter(t) ==
    IF node.limiter # 0 THEN limiters[node.limiter]
    ELSE IF calls[t].limiter # <<>> THEN calls[t].limiter[1]
    ELSE RateLimiter(node.max_concurrent, node.max_per_minute, WindowSeconds)

\* The limiter of instance t's copy becomes L.
SetCopyLimiter(t, L, c) ==
    IF node.limiter # 0
    THEN /\ limiters' = [limiters EXCEPT ![node.limiter] = L]
         /\ calls' = [calls EXCEPT ![t] = c]
    ELSE /\ limiters' = limiters
         /\ calls' = [calls EXCEPT ![t] = [c EXCEPT !.limiter = <<L>>]]

\* Mutant of NodeCallStart: the items are gathered without the limiter.
NodeCallStartUnthrottled(t) ==
    /\ node.kind # "none"
    /\ flow.kind # "none"
    /\ run = "running"
    /\ pc[t] = "body"
    /\ calls[t].started < NodeItems
    /\ LET L == CopyLimiter(t) IN
        SetCopyLimiter(t, [L EXCEPT !.value = @ - 1],
                       [calls[t] EXCEPT !.started = @ + 1, !.running = @ + 1])
    /\ UNCHANGED <<clock, pc, lim, wake_at, permit, last_exit, acquire_log, ctlVars,
                   registry, site, last_call, batchVars>>

\* Inside instance t, _throttled_exec of an item of the node's batch passes
\* `async with self.limiter` (a semaphore permit is free and nobody queues)
\* and the user function is called.  An item that finds no permit waits.
NodeCallStart(t) ==
    /\ node.kind # "none"
    /\ flow.kind # "none"
    /\ run = "running"
    /\ pc[t] = "body"
    /\ calls[t].started < NodeItems
    /\ LET L == CopyLimiter(t) IN
        /\ ~SemLocked(L)
        /\ SetCopyLimiter(t, [L EXCEPT !.value = @ - 1],
                          [calls[t] EXCEPT !.started = @ + 1, !.running = @ + 1])
    /\ UNCHANGED <<clock, pc, lim, wake_at, permit, last_exit, acquire_log, ctlVars,
                   registry, site, last_call, batchVars>>

\* Inside instance t, a call of the user function ends and __aexit__ gives
\* the permit back.
NodeCallEnd(t) ==
    /\ node.kind # "none"
    /\ flow.kind # "none"
    /\ run = "running"
    /\ pc[t] = "body"
    /\ calls[t].running > 0
    /\ LET L == CopyLimiter(t) IN
        SetCopyLimiter(t, [L EXCEPT !.value = @ + 1], [calls[t] EXCEPT !.running = @ - 1])
    /\ UNCHANGED <<clock, pc, lim, wake_at, permit, last_exit, acquire_log, ctlVars,
                   registry, site, last_call, batchVars>>

\* The node's gather has every result: _orch_async returns for instance t.
OrchReturn(t) ==
    /\ node.kind # "none"
    /\ calls[t].started = NodeItems
    /\ calls[t].running = 0
    /\ InstanceSucceed(t)

\* A throttled flow without a window limit over a graph of one throttled
\* batch node, whose limiter was or was not made before the run.
InitNested ==
    /\ InitTasks("none")
    /\ registry = <<>>
    /\ run = "idle"
    /\ \E F \in 1..MaxConcurrent : flow = ThrottledAsyncParallelBatchFlow(F, None)
    /\ \E K \in 1..MaxConcurrent :
        LET n == ThrottledParallelBatchNode(1, K, None)
            r == NodeLimiter(n, <<>>)
        IN \/ node = n /\ limiters = <<>>
           \/ node = r.node /\ limiters = r.limiters

NextNested ==
    \/ RunAsync
    \/ \E t \in Tasks : InstanceEnter(t)
    \/ \E t \in Tasks : SemResume(t)
    \/ \E t \in Tasks : NodeCallStart(t)
    \/ \E t \in Tasks : NodeCallEnd(t)
    \/ \E t \in Tasks : OrchReturn(t)
    \/ FlowGatherReturn

SpecNested == InitNested /\ [][NextNested]_vars

\* ------------------------------------------------- runs of the executors

\* The adaptive configurations the runs are made with.
RunConfigs ==
    {d \in AdaptiveConfigs :
        /\ d.max = MaxConcurrent
        /\ d.backoff = <<1, 2>>
        /\ d.recovery = <<2, 1>>}

\* The nodes a batch is run on: fixed and adaptive.  A window limit, where one
\* is set, is the tightest (one per window), under which every item after the
\* first waits for the window.
BatchNodes ==
    {ThrottledParallelBatchNode(1, m, n) : m \in 1..MaxConcurrent, n \in {None, 1}}
    \cup
    {AdaptiveThrottledNode(1, c.initial, c.min, c.max, c.backoff, c.threshold,
                           c.recovery, None) : c \in RunConfigs}

\* The flows a batch of parameter bundles is run on: fixed and adaptive.
BatchFlows ==
    {ThrottledAsyncParallelBatchFlow(m, n) : m \in 1..MaxConcurrent, n \in {None, 1}}
    \cup
    {AdaptiveThrottledBatchFlow(c.initial, c.min, c.max, c.backoff, c.threshold,
                                c.recovery, None) : c \in RunConfigs}

\* An executor freshly constructed; nothing has run on it.
InitBatch ==
    /\ InitTasks("none")
    /\ registry = <<>>
    /\ limiters = <<>>
    /\ run = "idle"
    /\ \/ node \in BatchNodes /\ flow = NoFlow
       \/ node = NoNode /\ flow \in BatchFlows

NextBatch ==
    \/ ExecBatch
    \/ \E t \in Tasks : ItemEnter(t)
    \/ \E t \in Tasks : SemResume(t)
    \/ \E t \in Tasks : LockResume(t)
    \/ \E t \in Tasks : SleepWake(t)
    \/ \E t \in Tasks : ItemSucceed(t)
    \/ \E t \in Tasks : ItemFail(t)
    \/ \E t \in Tasks : ItemCancelInBody(t)
    \/ \E t \in Tasks : CancelAtSemaphore(t)
    \/ \E t \in Tasks : CancelAtWindow(t)
    \/ GatherReturn
    \/ GatherRaise
    \/ HostCancel
    \/ GatherCancelled
    \/ RunAsync
    \/ \E t \in Tasks : InstanceEnter(t)
    \/ \E t \in Tasks : InstanceSucceed(t)
    \/ \E t \in Tasks : InstanceFail(t)
    \/ \E t \in Tasks : InstanceCancel(t)
    \/ FlowGatherReturn
    \/ Tick

SpecBatch == InitBatch /\ [][NextBatch]_vars

\* A batch on an adaptive node that retries failed attempts, run to its end.
RetryNodes ==
    {AdaptiveThrottledNode(MaxRetries, MaxConcurrent, 1, MaxConcurrent, <<1, 2>>,
                           h, <<2, 1>>, None) : h \in 1..MaxThreshold}

InitRetry ==
    /\ InitTasks("none")
    /\ registry = <<>>
    /\ limiters = <<>>
    /\ run = "idle"
    /\ node \in RetryNodes
    /\ flow = NoFlow

NextRetry ==
    \/ ExecBatch
    \/ \E t \in Tasks : ItemEnter(t)
    \/ \E t \in Tasks : SemResume(t)
    \/ \E t \in Tasks : ItemRetry(t)
    \/ \E t \in Tasks : ItemSucceed(t)
    \/ \E t \in Tasks : ItemFail(t)
    \/ GatherReturn
    \/ GatherRaise

SpecRetry == InitRetry /\ [][NextRetry]_vars

\* One adaptive node that retries failed attempts, and whose recovery takes
\* more than one success.
InitCounted ==
    /\ InitTasks("none")
    /\ registry = <<>>
    /\ limiters = <<>>
    /\ run = "idle"
    /\ node = AdaptiveThrottledNode(MaxRetries, MaxConcurrent, 1, MaxConcurrent, <<1, 2>>,
                                    MaxThreshold, <<2, 1>>, None)
    /\ flow = NoFlow

SpecCounted == InitCounted /\ [][NextRetry]_vars

\* A batch on a fixed node that retries failed attempts, with and without a
\* window limit.
AttemptNodes ==
    {ThrottledParallelBatchNode(MaxRetries, m, n) : m \in {1, MaxConcurrent}, n \in {None, 1}}

InitAttempts ==
    /\ InitTasks("none")
    /\ registry = <<>>
    /\ limiters = <<>>
    /\ run = "idle"
    /\ node \in AttemptNodes
    /\ flow = NoFlow

NextAttempts ==
    \/ ExecBatch
    \/ \E t \in Tasks : ItemEnter(t)
    \/ \E t \in Tasks : SemResume(t)
    \/ \E t \in Tasks : LockResume(t)
    \/ \E t \in Tasks : SleepWake(t)
    \/ \E t \in Tasks : ItemRetry(t)
    \/ \E t \in Tasks : ItemSucceed(t)
    \/ \E t \in Tasks : ItemFail(t)
    \/ GatherReturn
    \/ GatherRaise
    \/ Tick

SpecAttempts == InitAttempts /\ [][NextAttempts]_vars

\* The arguments executors are constructed with, valid or not: a level below
\* 1, a floor above the ceiling, an initial level outside them, factors that
\* do not shrink or do not grow.
ConstructConfigs ==
    [initial : {-1} \cup 1..MaxConcurrent, min : 1..MaxConcurrent, max : 1..MaxConcurrent,
     backoff : {<<1, 2>>, <<1, 1>>}, recovery : {<<2, 1>>, <<1, 1>>}]

\* A node is constructed: ThrottledParallelBatchNode.__init__ or
\* AdaptiveThrottledNode.__init__ with any arguments.
Construct ==
    /\ run = "unbuilt"
    /\ \/ \E m \in {-1} \cup 1..MaxConcurrent, n \in {-1, None} :
            node' = ThrottledParallelBatchNode(1, m, n)
       \/ \E c \in ConstructConfigs :
            node' = AdaptiveThrottledNode(1, c.initial, c.min, c.max, c.backoff, 1,
                                          c.recovery, None)
    /\ run' = "idle"
    /\ UNCHANGED <<limiterVars, flow, regVars, calls, items, task_result, results, overtaken,
                   cur_retry, attempt_hit>>

\* Nothing constructed yet.
InitConstruct ==
    /\ InitTasks("none")
    /\ registry = <<>>
    /\ limiters = <<>>
    /\ run = "unbuilt"
    /\ node = NoNode
    /\ flow = NoFlow

NextConstruct ==
    \/ Construct
    \/ ExecBatch
    \/ \E t \in Tasks : ItemEnter(t)
    \/ \E t \in Tasks : ItemEnterRaises(t)
    \/ \E t \in Tasks : SemResume(t)
    \/ \E t \in Tasks : ItemSucceed(t)
    \/ \E t \in Tasks : ItemFail(t)
    \/ GatherReturn
    \/ GatherRaise

SpecConstruct == InitConstruct /\ [][NextConstruct]_vars

\* A further _exec call on the same node while one is running (run_async of
\* the node awaited concurrently): its gather creates the coroutine of a new
\* item, here in the place of an item task that has finished.
ExecAgain(t) ==
    /\ node.kind # "none"
    /\ run = "running"
    /\ pc[t] = "done"
    /\ Len(acquire_log) < MaxEvents
    /\ pc' = [pc EXCEPT ![t] = "idle"]
    /\ lim' = [lim EXCEPT ![t] = 0]
    /\ task_result' = [task_result EXCEPT ![t] = NoResult]
    /\ attempt_hit' = [attempt_hit EXCEPT ![t] = FALSE]
    /\ UNCHANGED <<clock, limiters, wake_at, permit, last_exit, acquire_log, ctlVars, regVars, calls,
                   items, run, results, overtaken, cur_retry>>

\* Overlapping runs on one node with no window limit.
OverlapNodes == {n \in BatchNodes : n.max_per_minute = None}

InitOverlap ==
    /\ InitTasks("none")
    /\ registry = <<>>
    /\ limiters = <<>>
    /\ run = "idle"
    /\ node \in OverlapNodes
    /\ flow = NoFlow

NextOverlap ==
    \/ ExecBatch
    \/ \E t \in Tasks : ExecAgain(t)
    \/ \E t \in Tasks : ItemEnter(t)
    \/ \E t \in Tasks : SemResume(t)
    \/ \E t \in Tasks : ItemSucceed(t)
    \/ \E t \in Tasks : ItemFail(t)

SpecOverlap == InitOverlap /\ [][NextOverlap]_vars

\* ------------------------------------------------------ LimiterRegistry

\* The names limiters are registered under, and the configurations.
Names == {"shared", "other"}
NoName == ""
RegistryConfigs ==
    {<<m, n, WindowSeconds>> : m \in 1..MaxConcurrent, n \in {None, 1}}

\* What a registry call leaves and gives back: the value returned, or the
\* exception raised.
Returned(reg, lims, value) ==
    [registry |-> reg, limiters |-> lims, raised |-> "none", value |-> value]
Raised(reg, lims, exc) ==
    [registry |-> reg, limiters |-> lims, raised |-> exc, value |-> 0]

\* Mutant of RegistryRegister: an existing name is always overridden.
RegistryRegisterOverrides(reg, lims, name, cfg, replace) ==
    LET id == FreshId(lims) IN
    Returned([n \in DOMAIN reg \cup {name} |-> IF n = name THEN id ELSE reg[n]],
             lims @@ (id :> RateLimiter(cfg[1], cfg[2], cfg[3])), id)

\* LimiterRegistry.register
RegistryRegister(reg, lims, name, cfg, replace) ==
    IF name \in DOMAIN reg /\ ~replace
    THEN Raised(reg, lims, "ValueError")
    ELSE LET id == FreshId(lims) IN
         Returned([n \in DOMAIN reg \cup {name} |-> IF n = name THEN id ELSE reg[n]],
                  lims @@ (id :> RateLimiter(cfg[1], cfg[2], cfg[3])), id)

\* Mutant of RegistryGet: every call site is given a limiter of its own,
\* made like the registered one.
RegistryGetOwnCopy(reg, lims, name) ==
    IF name \notin DOMAIN reg
    THEN Raised(reg, lims, "KeyError")
    ELSE LET id == FreshId(lims)
             L  == lims[reg[name]]
         IN Returned(reg, lims @@ (id :> RateLimiter(L.max_concurrent, L.max_per_window,
                                                     L.window_seconds)), id)

\* LimiterRegistry.get
RegistryGet(reg, lims, name) ==
    IF name \notin DOMAIN reg
    THEN Raised(reg, lims, "KeyError")
    ELSE Returned(reg, lims, reg[name])

\* LimiterRegistry.stats: the configuration of the limiter and the length of
\* its deque of timestamps.
RegistryStats(reg, lims, name) ==
    LET r == RegistryGet(reg, lims, name) IN
    IF r.raised # "none" THEN r
    ELSE Returned(reg, lims,
                  [max_concurrent |-> lims[r.value].max_concurrent,
                   max_per_window |-> lims[r.value].max_per_window,
                   window_seconds |-> lims[r.value].window_seconds,
                   current_window_count |-> Len(lims[r.value].timestamps)])

\* Mutant of RegistryGetOrCreate: the limiter is registered anew on every call.
RegistryGetOrCreateAnew(reg, lims, name, cfg) ==
    RegistryRegister(reg, lims, name, cfg, TRUE)

\* LimiterRegistry.get_or_create
RegistryGetOrCreate(reg, lims, name, cfg) ==
    LET r == IF name \notin DOMAIN reg
             THEN RegistryRegister(reg, lims, name, cfg, FALSE)
             ELSE Returned(reg, lims, 0)
    IN Returned(r.registry, r.limiters, r.registry[name])

\* LimiterRegistry.remove
RegistryRemove(reg, lims, name) ==
    IF name \in DOMAIN reg
    THEN Returned([n \in DOMAIN reg \ {name} |-> reg[n]], lims, 1)
    ELSE Returned(reg, lims, 0)

\* LimiterRegistry.reset: no name (None) clears the registry.
RegistryReset(reg, lims, name) ==
    IF name = NoName
    THEN Returned(<<>>, lims, 0)
    ELSE IF name \in DOMAIN reg
         THEN Returned([n \in DOMAIN reg \ {name} |-> reg[n]], lims, 0)
         ELSE Returned(reg, lims, 0)

\* A limiter that neither the registry nor a task inside or entering its
\* block refers to is gone.
Unreferenced(lims, reg, pcs) ==
    LET refs == {reg[n] : n \in DOMAIN reg}
                \cup {lim[t] : t \in {u \in Tasks : pcs[u] \notin {"idle", "done"}}}
    IN [l \in DOMAIN lims \cap refs |-> lims[l]]

\* A call of the registry at application startup, before any call site runs
\* (shared.py 50-53): r is what the call leaves.
RegistryCall(op, name, cfg, replace, r) ==
    /\ registry' = r.registry
    /\ limiters' = Unreferenced(r.limiters, r.registry, pc)
    /\ last_call' = [op |-> op, name |-> name, cfg |-> cfg, replace |-> replace,
                     raised |-> r.raised,
                     value |-> r.value,
                     created |-> (name \in DOMAIN r.registry /\ name \notin DOMAIN registry),
                     tick |-> 1 - last_call.tick]
    /\ UNCHANGED <<clock, pc, lim, wake_at, permit, last_exit, acquire_log, ctlVars,
                   batchVars, site, calls>>

Register(name, cfg, replace) ==
    /\ run = "startup"
    /\ RegistryCall("register", name, cfg, replace,
                    RegistryRegister(registry, limiters, name, cfg, replace))

GetOrCreate(name, cfg) ==
    /\ run = "startup"
    /\ RegistryCall("get_or_create", name, cfg, FALSE,
                    RegistryGetOrCreate(registry, limiters, name, cfg))

RemoveName(name) ==
    /\ run = "startup"
    /\ RegistryCall("remove", name, <<>>, FALSE, RegistryRemove(registry, limiters, name))

Reset(name) ==
    /\ run = "startup"
    /\ RegistryCall("reset", name, <<>>, FALSE, RegistryReset(registry, limiters, name))

\* A call site, task t: `async with LimiterRegistry.get(name):`.  A name that
\* is not registered ends the task with KeyError.
SiteEnter(t, name) ==
    /\ run = "free"
    /\ pc[t] = "idle"
    /\ \A u \in Tasks : u < t => pc[u] # "idle"
    /\ LET r == RegistryGet(registry, limiters, name) IN
        IF r.raised # "none"
        THEN /\ pc' = [pc EXCEPT ![t] = "done"]
             /\ UNCHANGED <<clock, limiters, lim, wake_at, permit, acquire_log, site>>
        ELSE /\ lim' = [lim EXCEPT ![t] = r.value]
             /\ site' = [site EXCEPT ![t] = name]
             /\ Acquire(t, r.value, r.limiters)
    /\ UNCHANGED <<last_exit, ctlVars, batchVars, registry, last_call, calls>>

\* The block of call site t ends: __aexit__ releases the permit.
SiteExit(t) ==
    /\ run = "free"
    /\ pc[t] = "body"
    /\ site[t] # NoSite
    /\ LET s   == Aexit(Frag(limiters, pc, permit), t, "return")
           pc1 == [s.pc EXCEPT ![t] = "done"]
       IN /\ limiters' = Unreferenced(s.lims, registry, pc1)
          /\ pc' = pc1
          /\ permit' = s.permit
    /\ UNCHANGED <<clock, lim, wake_at, last_exit, acquire_log, ctlVars, batchVars,
                   regVars, calls>>

\* The registry empty, as when the class is loaded.
InitRegistry ==
    /\ InitTasks("none")
    /\ registry = <<>>
    /\ limiters = <<>>
    /\ node = NoNode
    /\ flow = NoFlow
    /\ run = "startup"

NextRegistry ==
    \/ \E name \in Names, cfg \in RegistryConfigs, replace \in BOOLEAN :
          Register(name, cfg, replace)
    \/ \E name \in Names, cfg \in RegistryConfigs : GetOrCreate(name, cfg)
    \/ \E name \in Names : RemoveName(name)
    \/ \E name \in Names \cup {NoName} : Reset(name)

SpecRegistry == InitRegistry /\ [][NextRegistry]_vars

\* The limiters the application registered at startup, one under each name,
\* and call sites that have not run.
InitShared ==
    /\ InitTasks("idle")
    /\ node = NoNode
    /\ flow = NoFlow
    /\ run = "free"
    /\ \E c1 \in RegistryConfigs, c2 \in RegistryConfigs :
          LET r1 == RegistryRegister(<<>>, <<>>, "shared", c1, FALSE)
              r2 == RegistryRegister(r1.registry, r1.limiters, "other", c2, FALSE)
          IN /\ registry = r2.registry
             /\ limiters = r2.limiters

NextShared ==
    \/ \E t \in Tasks, name \in Names \cup {"missing"} : SiteEnter(t, name)
    \/ \E t \in Tasks : SemResume(t)
    \/ \E t \in Tasks : LockResume(t)
    \/ \E t \in Tasks : SleepWake(t)
    \/ \E t \in Tasks : SiteExit(t)
    \/ Tick

SpecShared == InitShared /\ [][NextShared]_vars

\* The limiter registered under name has a task holding or awaiting one of
\* its permits.
InUse(name) ==
    /\ name \in DOMAIN registry
    /\ \E t \in Tasks : lim[t] = registry[name] /\ pc[t] \notin {"idle", "done"}

\* LimiterRegistry.register(name, ..., replace=True) while call sites use the
\* limiter under the name.
ReplaceInUse(name, cfg) ==
    /\ run = "free"
    /\ InUse(name)
    /\ RegistryCall("register", name, cfg, TRUE,
                    RegistryRegister(registry, limiters, name, cfg, TRUE))

\* LimiterRegistry.remove(name) while call sites use the limiter.
RemoveInUse(name) ==
    /\ run = "free"
    /\ InUse(name)
    /\ RegistryCall("remove", name, <<>>, FALSE, RegistryRemove(registry, limiters, name))

\* LimiterRegistry.reset(name), or reset() for every name, while call sites
\* use a limiter that goes.
ResetInUse(name) ==
    /\ run = "free"
    /\ IF name = NoName THEN \E n \in Names : InUse(n) ELSE InUse(name)
    /\ RegistryCall("reset", name, <<>>, FALSE, RegistryReset(registry, limiters, name))

\* LimiterRegistry.register(name, ...) after the name was removed.
RegisterAfresh(name, cfg) ==
    /\ run = "free"
    /\ name \notin DOMAIN registry
    /\ RegistryCall("register", name, cfg, FALSE,
                    RegistryRegister(registry, limiters, name, cfg, FALSE))

\* Configurations with a window limit that the call sites never fill: every
\* acquire() records a timestamp and none sleeps.
SwapConfigs ==
    {<<m, MaxTasks, WindowSeconds>> : m \in 1..MaxConcurrent}

\* One limiter registered under "shared", and call sites that have not run.
InitSwap ==
    /\ InitTasks("idle")
    /\ node = NoNode
    /\ flow = NoFlow
    /\ run = "free"
    /\ \E c \in SwapConfigs :
          LET r == RegistryRegister(<<>>, <<>>, "shared", c, FALSE)
          IN /\ registry = r.registry
             /\ limiters = r.limiters

\* Call sites of one name, and registry calls on that name while they run.
NextSwap ==
    \/ \E t \in Tasks : SiteEnter(t, "shared")
    \/ \E t \in Tasks : SemResume(t)
    \/ \E t \in Tasks : SiteExit(t)
    \/ \E cfg \in SwapConfigs : ReplaceInUse("shared", cfg)
    \/ RemoveInUse("shared")
    \/ \E name \in {"shared", NoName} : ResetInUse(name)
    \/ \E cfg \in SwapConfigs : RegisterAfresh("shared", cfg)

SpecSwap == InitSwap /\ [][NextSwap]_vars

\* ------------------------------------------------------------------ claims

\* Tasks that have returned from acquire() of limiter l and have not released.
InBlock(l) == {t \in Tasks : lim[t] = l /\ pc[t] = "body"}

\* Tasks that own a permit of limiter l.
Owners(l) == {t \in Tasks : lim[t] = l /\ permit[t]}

\* C1: for a RateLimiter with max_concurrent = M, the number of tasks that
\* have returned from acquire() and not yet released is at most M, in every
\* reachable state of every interleaving.
C1_ConcurrencyBound ==
    \A l \in DOMAIN limiters :
        Cardinality(InBlock(l)) <= limiters[l].max_concurrent

\* M tasks are inside their blocks while another one waits for a permit.
C1_Witness ==
    \E l \in DOMAIN limiters :
        /\ Cardinality(InBlock(l)) = limiters[l].max_concurrent
        /\ \E t \in Tasks : lim[t] = l /\ pc[t] = "sem_wait"

\* The returns of acquire() on limiter l recorded up to now, as indices.
Returns(l) == {i \in DOMAIN acquire_log : acquire_log[i][1] = l}

\* C2: with max_per_window = N and window_seconds = W (and no reset), no
\* interval of length W contains more than N returns of acquire(), and the
\* recorded timestamps within the trailing W seconds never number more
\* than N.
C2_WindowBound ==
    \A l \in DOMAIN limiters :
        limiters[l].max_per_window # None =>
            /\ \A i \in Returns(l) :
                  Cardinality({j \in Returns(l) :
                      /\ acquire_log[j][2] <= acquire_log[i][2]
                      /\ acquire_log[i][2] - acquire_log[j][2]
                            <= limiters[l].window_seconds})
                    <= limiters[l].max_per_window
            /\ WindowCount(limiters[l], clock) <= limiters[l].max_per_window

\* More than N acquisitions have returned: some acquirer found the window
\* full, slept, and recorded its timestamp after waking.
C2_Witness ==
    \E l \in DOMAIN limiters :
        /\ limiters[l].max_per_window # None
        /\ Cardinality(Returns(l)) > limiters[l].max_per_window

\* C3: the scoped acquisition gives its permit back exactly once on every
\* exit path of the block (return, exception, cancellation inside the block):
\* a task that has left its block owns no permit, and the available permits
\* plus the owned ones are always max_concurrent.
C3_ScopedRelease ==
    /\ \A t \in Tasks : pc[t] = "done" => ~permit[t]
    /\ \A l \in DOMAIN limiters :
          limiters[l].value + Cardinality(Owners(l)) = limiters[l].max_concurrent

\* A block was left by cancellation and every permit is available again.
C3_Witness ==
    /\ last_exit = "cancel"
    /\ \E t \in Tasks : pc[t] = "done"
    /\ \A l \in DOMAIN limiters : limiters[l].value = limiters[l].max_concurrent

\* C4: a task cancelled inside acquire() after it obtained the semaphore
\* permit and before its timestamp is appended gives the permit back: a task
\* that left acquire() by cancellation owns no permit.
C4_CancelledAcquireReleases ==
    \A t \in Tasks : pc[t] = "cancelled" => ~permit[t]

\* C5: when every item of a batch succeeds, the list _exec returns has the
\* length of the batch and its i-th entry is the outcome of the i-th item,
\* whatever order the item tasks completed in; an empty batch returns the empty
\* list without creating a limiter or acquiring a permit.
C5_OrderedResults ==
    (node.kind # "none" /\ run = "returned") =>
        /\ Len(results) = Len(items)
        /\ \A i \in 1..Len(items) : results[i] = UserFn(items[i])
        /\ items = <<>> =>
              /\ acquire_log = <<>>
              /\ limiters = <<>>
              /\ node.limiter = 0
              /\ \A t \in Tasks : ~permit[t]

\* A batch of several items has returned, and a later item finished before
\* an earlier one.
C5_Witness ==
    /\ node.kind # "none"
    /\ run = "returned"
    /\ Len(items) >= 2
    /\ overtaken

\* C6: when the user function fails for good for one item, the batch call
\* does not raise: the failure sits at the item's index of the ordered result
\* and every sibling's result is returned; the batch call raises only when it
\* is cancelled.
C6_FailureInPlace ==
    /\ run # "raised"
    /\ (\E t \in ItemTasks : task_result[t].kind \in Exceptions)
          => run \in {"running", "returned", "cancelling", "cancelled"}
    /\ run = "returned" => Len(results) = Len(items)

\* C7: a batch run never returns or raises to its caller while an item task
\* of the run still holds a limiter permit.
C7_NoPermitHeldAtExit ==
    run \in {"returned", "raised", "cancelled"} =>
        \A t \in ItemTasks : ~permit[t]

\* C8: for the adaptive node and the adaptive flow configured with
\* min <= initial <= max, 0 < backoff_factor < 1 and recovery_factor > 1, the
\* current concurrency stays within the configured floor and ceiling after
\* any sequence of on_success, on_rate_limit and reset_adaptive_state.
C8_CurrentWithinBounds ==
    /\ node.kind = "adaptive" =>
          /\ node.min_concurrent <= node.current_concurrent
          /\ node.current_concurrent <= node.ceiling
    /\ flow.kind = "adaptive_flow" =>
          /\ flow.min_concurrent_flows <= flow.current_concurrent_flows
          /\ flow.current_concurrent_flows <= flow.max_concurrent_flows

\* A flow that started below its ceiling backed off and later recovered up
\* to the ceiling.
C8_Witness ==
    /\ flow.kind = "adaptive_flow"
    /\ flow.total_rate_limits > 0
    /\ flow.initial_concurrent_flows < flow.max_concurrent_flows
    /\ flow.current_concurrent_flows = flow.max_concurrent_flows

\* C9: each on_rate_limit event sets current to
\* max(min, floor(current * backoff_factor)), sets consecutive_successes to 0
\* and adds 1 to total_rate_limits; once current equals min it stays at min.
C9_Backoff ==
    [][ /\ ( /\ node.kind = "adaptive"
             /\ node'.kind = "adaptive"
             /\ node'.total_rate_limits = node.total_rate_limits + 1 )
           => /\ node'.current_concurrent
                   = LET whole == (node.current_concurrent * node.backoff_factor[1])
                                      \div node.backoff_factor[2]
                     IN IF whole < node.min_concurrent THEN node.min_concurrent ELSE whole
              /\ node'.consecutive_successes = 0
              /\ node.current_concurrent = node.min_concurrent
                    => node'.current_concurrent = node.min_concurrent
        /\ ( /\ flow.kind = "adaptive_flow"
             /\ flow'.kind = "adaptive_flow"
             /\ flow'.total_rate_limits = flow.total_rate_limits + 1 )
           => /\ flow'.current_concurrent_flows
                   = LET whole == (flow.current_concurrent_flows * flow.backoff_factor[1])
                                      \div flow.backoff_factor[2]
                     IN IF whole < flow.min_concurrent_flows
                        THEN flow.min_concurrent_flows ELSE whole
              /\ flow'.consecutive_successes = 0
              /\ flow.current_concurrent_flows = flow.min_concurrent_flows
                    => flow'.current_concurrent_flows = flow.min_concurrent_flows
      ]_vars

\* A node that started above its floor has taken several rate limits and
\* sits at the floor.
C9_Witness ==
    /\ node.kind = "adaptive"
    /\ node.total_rate_limits >= 3
    /\ node.min_concurrent < node.initial_concurrent
    /\ node.current_concurrent = node.min_concurrent
    /\ node.consecutive_successes = 0

\* C10: for an AdaptiveThrottledNode created with initial_concurrent = i and
\* max_concurrent = M, the recovery_threshold-th consecutive on_success sets
\* current to min(M, floor(current * recovery_factor)) and consecutive_successes
\* to 0; fewer consecutive successes leave current unchanged.
C10_RecoveryToCeiling ==
    [][ ( /\ node.kind = "adaptive"
          /\ node'.kind = "adaptive"
          /\ node'.total_successes = node.total_successes + 1 )
        => IF node.consecutive_successes + 1 >= node.recovery_threshold
           THEN /\ node'.current_concurrent
                     = LET whole == (node.current_concurrent * node.recovery_factor[1])
                                        \div node.recovery_factor[2]
                       IN IF whole > node.ceiling THEN node.ceiling ELSE whole
                /\ node'.consecutive_successes = 0
           ELSE node'.current_concurrent = node.current_concurrent
      ]_vars

\* Item tasks of the run that ended with an exception of the set es.
EndedWith(es) == {t \in ItemTasks : task_result[t].kind \in es}

\* C11: on the adaptive node with retries, an item of which an attempt
\* failed with a rate limit error and a later attempt succeeded has had
\* on_rate_limit invoked for it: total_rate_limits counts every such item.
C11_RetriedRateLimitCounted ==
    node.kind = "adaptive" =>
        node.total_rate_limits
            >= Cardinality({t \in ItemTasks : task_result[t].kind = "ok" /\ attempt_hit[t]})

\* C12: on the adaptive node, every item whose user function ends with a
\* RateLimitHit triggers on_rate_limit exactly once, whatever the message of
\* the signal: total_rate_limits is the number of items that ended with a
\* RateLimitHit or with an exception the classifier matches.
C12_RateLimitHitCounted ==
    node.kind = "adaptive" =>
        node.total_rate_limits
            = Cardinality(EndedWith({e \in Exceptions : IsRateLimitHit(e) \/ IsRateLimitError(e)}))

\* The exceptions that are instances of RateLimitHit.
RateLimitHits == {"rate_limit_hit", "rate_limit_hit_custom"}

\* C13: in the adaptive flow an instance that ends with RateLimitHit triggers
\* on_rate_limit once and counts as failed, one that ends cleanly triggers
\* on_success once and counts as completed, any other triggers nothing; and
\* total_rate_limits is the number of instances that ended with RateLimitHit.
C13_OneEventPerInstance ==
    /\ [](flow.kind = "adaptive_flow" =>
            /\ flow.total_rate_limits
                  = Cardinality(EndedWith(RateLimitHits))
            /\ flow.failed_flows = Cardinality(EndedWith(Exceptions))
            /\ flow.completed_flows = Cardinality(EndedWith({"ok"})))
    /\ [][ \A t \in Tasks :
              ( /\ flow.kind = "adaptive_flow"
                /\ flow'.kind = "adaptive_flow"
                /\ task_result[t].kind = "none"
                /\ task_result'[t].kind # "none" )
              => LET k == task_result'[t].kind IN
                 /\ k = "ok" =>
                       /\ flow'.total_rate_limits = flow.total_rate_limits
                       /\ flow'.consecutive_successes
                             = IF flow.consecutive_successes + 1 >= flow.recovery_threshold
                               THEN 0 ELSE flow.consecutive_successes + 1
                 /\ k \in RateLimitHits =>
                       /\ flow'.total_rate_limits = flow.total_rate_limits + 1
                       /\ flow'.consecutive_successes = 0
                 /\ (k = "cancelled" \/ k \in Exceptions \ RateLimitHits) =>
                       /\ flow'.total_rate_limits = flow.total_rate_limits
                       /\ flow'.consecutive_successes = flow.consecutive_successes
                       /\ flow'.current_concurrent_flows = flow.current_concurrent_flows
      ]_vars

\* A run of an adaptive flow has returned; one instance ended with a
\* RateLimitHit, one cleanly and one with another exception.
C13_Witness ==
    /\ flow.kind = "adaptive_flow"
    /\ run = "returned"
    /\ EndedWith({"rate_limit_hit_custom"}) # {}
    /\ EndedWith({"ok"}) # {}
    /\ EndedWith({"rate_limit_error"}) # {}
    /\ flow.total_rate_limits = 1

\* C14: an item or flow instance that fails with an exception which is not a
\* rate limit error leaves the adaptive state as it was: current,
\* consecutive_successes, total_rate_limits, total_successes and the installed
\* limiter.
C14_OtherErrorsLeaveState ==
    [][ \A t \in Tasks :
          (task_result[t].kind = "none" /\ task_result'[t].kind = "error")
          => /\ (node.kind = "adaptive" /\ node'.kind = "adaptive") =>
                   /\ node'.current_concurrent = node.current_concurrent
                   /\ node'.consecutive_successes = node.consecutive_successes
                   /\ node'.total_rate_limits = node.total_rate_limits
                   /\ node'.total_successes = node.total_successes
                   /\ node'.limiter = node.limiter
             /\ (flow.kind = "adaptive_flow" /\ flow'.kind = "adaptive_flow") =>
                   /\ flow'.current_concurrent_flows = flow.current_concurrent_flows
                   /\ flow'.consecutive_successes = flow.consecutive_successes
                   /\ flow'.total_rate_limits = flow.total_rate_limits
                   /\ flow'.flow_limiter = flow.flow_limiter
      ]_vars

\* An item of an adaptive node that has backed off and counted a success
\* failed with an exception that is no rate limit error.
C14_Witness ==
    /\ node.kind = "adaptive"
    /\ EndedWith({"error"}) # {}
    /\ node.total_successes > 0
    /\ node.total_rate_limits > 0
    /\ node.current_concurrent < node.initial_concurrent

\* C15: every permit taken from a limiter instance goes back to that
\* instance, also when the controller has installed another one since: no
\* instance ever has more permits available than its capacity, the permits
\* available and the permits out always add up to the capacity, and an
\* instance with a permit out is still there to take it back.
C15_PermitsReturnToTheirLimiter ==
    /\ \A l \in DOMAIN limiters :
          /\ limiters[l].value <= limiters[l].max_concurrent
          /\ limiters[l].max_concurrent - limiters[l].value = Cardinality(Owners(l))
    /\ \A t \in Tasks :
          /\ permit[t] => lim[t] \in DOMAIN limiters
          /\ pc[t] = "done" => ~permit[t]

\* On an adaptive node the second of two items hit a rate limit, the
\* controller installed a smaller limiter, and the first item, which held a
\* permit of the old limiter all along, finished afterwards.
C15_Witness ==
    /\ node.kind = "adaptive"
    /\ Len(items) = 2
    /\ overtaken
    /\ task_result[2].kind = "rate_limit_error"
    /\ node.current_concurrent < node.initial_concurrent
    /\ pc[1] = "done"
    /\ lim[1] = lim[2]
    /\ node.limiter # lim[1]

\* C16: on a node executor, over any sequence of batch runs, overlapping
\* ones and adaptive resizes included, the items inside the limiter's scope at
\* any one time are never more than the configured max_concurrent.
C16_NodeConcurrencyBound ==
    node.kind # "none" =>
        Cardinality({t \in ItemTasks : pc[t] = "body"})
            <= (IF node.kind = "adaptive" THEN node.ceiling ELSE node.max_concurrent)

\* The call sites inside the block of the limiter they took under a name.
Holders(name) == {t \in Tasks : pc[t] = "body" /\ site[t] = name}

\* C17: the call sites that take the limiter registered under one name with
\* max_concurrent = M through LimiterRegistry.get hold at most M permits
\* between them; and a step of the call sites of one name leaves the
\* available permits and the window history of the limiter under any other
\* name as they were.
C17_SharedBudget ==
    /\ [](\A n \in DOMAIN registry :
            Cardinality(Holders(n)) <= limiters[registry[n]].max_concurrent)
    /\ [][ \A n \in DOMAIN registry :
              (\A t \in Tasks : site'[t] = n => (pc'[t] = pc[t] /\ permit'[t] = permit[t]))
              => /\ limiters'[registry[n]].value = limiters[registry[n]].value
                 /\ limiters'[registry[n]].timestamps = limiters[registry[n]].timestamps
      ]_vars

\* Every permit of the limiter under "shared" is held by a call site, a
\* further call site of that name waits, and a call site holds a permit of
\* the limiter under "other".
C17_Witness ==
    /\ Cardinality(Holders("shared")) = limiters[registry["shared"]].max_concurrent
    /\ \E t \in Tasks : site[t] = "shared" /\ pc[t] = "sem_wait"
    /\ Holders("other") # {}

\* The configuration of a limiter.
ConfigOf(L) == <<L.max_concurrent, L.max_per_window, L.window_seconds>>

\* The step is a call op of the registry.
IsCall(op) == last_call'.tick # last_call.tick /\ last_call'.op = op

\* C18: register on a name already registered, with replace=False, raises
\* the already-exists error and leaves the registry and the limiter under the
\* name as they were; with replace=True it puts a new limiter of the new
\* configuration under the name and returns it.
C18_RegisterExisting ==
    [][ (IsCall("register") /\ last_call'.name \in DOMAIN registry)
        => LET n == last_call'.name IN
           IF ~last_call'.replace
           THEN /\ last_call'.raised = "ValueError"
                /\ registry' = registry
                /\ limiters' = limiters
           ELSE /\ last_call'.raised = "none"
                /\ registry'[n] # registry[n]
                /\ last_call'.value = registry'[n]
                /\ limiters'[registry'[n]]
                     = RateLimiter(last_call'.cfg[1], last_call'.cfg[2], last_call'.cfg[3])
                /\ \A m \in DOMAIN registry \ {n} :
                      m \in DOMAIN registry' /\ registry'[m] = registry[m]
      ]_vars

\* register without replace has just failed on a name that stands for a
\* limiter of another configuration than the one asked for.
C18_Witness ==
    /\ last_call.op = "register"
    /\ last_call.raised = "ValueError"
    /\ last_call.name \in DOMAIN registry
    /\ ConfigOf(limiters[registry[last_call.name]]) # last_call.cfg

\* C19: get_or_create on a name that is registered returns the registered
\* limiter and changes neither the registry nor a limiter; called twice in a
\* row on one name, with any two configurations, it returns the same
\* instance, which has the first configuration when the first call made it.
C19_GetOrCreateIdempotent ==
    [][ IsCall("get_or_create")
        => LET n == last_call'.name IN
           /\ last_call'.raised = "none"
           /\ n \in DOMAIN registry =>
                 /\ registry' = registry
                 /\ limiters' = limiters
                 /\ last_call'.value = registry[n]
           /\ (last_call.op = "get_or_create" /\ last_call.name = n) =>
                 /\ last_call'.value = last_call.value
                 /\ last_call.created =>
                       ConfigOf(limiters'[last_call'.value]) = last_call.cfg
      ]_vars

\* get_or_create has just been called with a configuration other than the
\* one of the limiter it found under the name and returned.
C19_Witness ==
    /\ last_call.op = "get_or_create"
    /\ ~last_call.created
    /\ last_call.name \in DOMAIN registry
    /\ last_call.value = registry[last_call.name]
    /\ ConfigOf(limiters[last_call.value]) # last_call.cfg

\* C20: in a run of ThrottledAsyncParallelBatchFlow with
\* max_concurrent_flows = F at most F flow instances are inside the flow
\* limiter's scope at any time, however many parameter bundles there are.
C20_FlowConcurrencyBound ==
    flow.kind = "throttled_flow" =>
        Cardinality({t \in ItemTasks : pc[t] = "body"}) <= flow.max_concurrent_flows

\* F instances are executing and a further bundle waits for a permit.
C20_Witness ==
    /\ flow.kind = "throttled_flow"
    /\ Cardinality({t \in ItemTasks : pc[t] = "body"}) = flow.max_concurrent_flows
    /\ \E t \in ItemTasks : pc[t] = "sem_wait"
    /\ Len(items) > flow.max_concurrent_flows

\* C21: a run of a flow never raises because an instance failed; when it
\* returns, every instance has run to its end, the outcome list has the
\* result or the exception of each bundle at the bundle's index, and
\* completed_flows + failed_flows is the number of bundles with failed_flows
\* the number of instances that raised.
C21_FlowFailuresInPlace ==
    flow.kind # "none" =>
        /\ run # "raised"
        /\ run = "returned" =>
              /\ Len(results) = Len(items)
              /\ \A i \in 1..Len(items) :
                    /\ pc[i] = "done"
                    /\ results[i] = task_result[i]
                    /\ results[i].kind \in Exceptions \cup {"ok"}
                    /\ results[i].kind = "ok" => results[i].val = items[i]
              /\ flow.completed_flows + flow.failed_flows = Len(items)
              /\ flow.failed_flows = Cardinality(EndedWith(Exceptions))

\* A run of a flow has returned in which the first instance raised and a
\* later one, which ended after it, returned.
C21_Witness ==
    /\ flow.kind # "none"
    /\ run = "returned"
    /\ Len(items) >= 2
    /\ results[1].kind = "error"
    /\ results[2].kind = "ok"
    /\ ~overtaken
    /\ flow.failed_flows = 1

\* C24: reset() empties the timestamp history, so that current_window_count
\* is 0, and touches nothing else: the permits available, the tasks holding
\* or awaiting one and the lock are as before; the permits held are given
\* back afterwards as ever, available and held permits always adding up to
\* max_concurrent.
C24_ResetClearsHistoryOnly ==
    /\ [](\A l \in DOMAIN limiters :
            /\ limiters[l].value <= limiters[l].max_concurrent
            /\ limiters[l].value + Cardinality(Owners(l)) = limiters[l].max_concurrent)
    /\ [][ IsCall("limiter_reset")
           => LET l == last_call'.value IN
              /\ limiters'[l].timestamps = <<>>
              /\ WindowCount(limiters'[l], clock') = 0
              /\ limiters'[l].value = limiters[l].value
              /\ limiters'[l].sem_waiters = limiters[l].sem_waiters
              /\ limiters'[l].lock_owner = limiters[l].lock_owner
              /\ limiters'[l].lock_waiters = limiters[l].lock_waiters
              /\ permit' = permit
              /\ pc' = pc
      ]_vars

\* The limiter was reset while a task was inside its block: the task's
\* timestamp is gone, its permit is not.
C24_Witness ==
    /\ last_call.op = "limiter_reset"
    /\ limiters[1].timestamps = <<>>
    /\ \E t \in Tasks : pc[t] = "body" /\ permit[t]
    /\ limiters[1].value < limiters[1].max_concurrent

\* How many further acquire() calls on limiter L return without blocking at
\* time now: the semaphore admits its free permits when nobody is queued, the
\* window gate what is left of max_per_window when the lock is free.
NonBlocking(L, now) ==
    LET sem == IF L.sem_waiters # <<>> THEN 0 ELSE L.value
        win == IF L.lock_owner # 0 \/ L.lock_waiters # <<>> THEN 0
               ELSE L.max_per_window - Len(Evict(L.timestamps, now, L.window_seconds))
    IN IF L.max_per_window = None THEN sem ELSE Min(sem, Max(win, 0))

\* What a caller can observe of a limiter.
Observable(L, now) ==
    [max_concurrent |-> L.max_concurrent,
     max_per_window |-> L.max_per_window,
     window_seconds |-> L.window_seconds,
     current_window_count |-> WindowCount(L, now),
     non_blocking |-> NonBlocking(L, now)]

\* A limiter freshly constructed with the configuration of L.
Fresh(L) == RateLimiter(L.max_concurrent, L.max_per_window, L.window_seconds)

ValidConfig(n) ==
    /\ n.max_concurrent >= 1
    /\ n.max_per_minute = None \/ n.max_per_minute >= 1
    /\ n.kind = "adaptive" =>
          /\ n.min_concurrent >= 1
          /\ n.min_concurrent <= n.initial_concurrent
          /\ n.initial_concurrent <= n.ceiling
          /\ 0 < n.backoff_factor[1] /\ n.backoff_factor[1] < n.backoff_factor[2]
          /\ n.recovery_factor[1] > n.recovery_factor[2]

\* C23: an invalid configuration is rejected when the executor is
\* constructed: every executor that exists has a valid configuration, and no
\* item of a run ends with the limiter's configuration error.
C23_InvalidConfigRejected ==
    /\ node.kind # "none" => ValidConfig(node)
    /\ \A t \in Tasks : task_result[t].kind # "ValueError"

\* C26: reset_adaptive_state() of the adaptive node and of the adaptive flow,
\* from any state, sets current to the configured initial level and the
\* counters to 0, and the limiter the next acquisition uses has a capacity of
\* the initial level.
C26_ResetRestoresInitial ==
    [][/\ NodeResetEvent =>
            /\ node'.current_concurrent = node.initial_concurrent
            /\ node'.initial_concurrent = node.initial_concurrent
            /\ node'.consecutive_successes = 0
            /\ node'.total_rate_limits = 0
            /\ node'.total_successes = 0
            /\ LET r == NodeLimiter(node', limiters') IN
                   r.limiters[r.id].max_concurrent = node.initial_concurrent
       /\ FlowResetEvent =>
            /\ flow'.current_concurrent_flows = flow.initial_concurrent_flows
            /\ flow'.initial_concurrent_flows = flow.initial_concurrent_flows
            /\ flow'.consecutive_successes = 0
            /\ flow'.total_rate_limits = 0
            /\ LET r == FlowLimiter(flow', limiters') IN
                   r.limiters[r.id].max_concurrent = flow.initial_concurrent_flows
      ]_vars

\* A node that had backed off below its initial level, and whose limiter was
\* of that lower level, has been reset.
C26_Witness ==
    /\ last_call.op = "node_reset"
    /\ last_call.value < node.initial_concurrent
    /\ node.current_concurrent = node.initial_concurrent
    /\ node.limiter = 0

\* C28: with max_attempts > 1 the permit is acquired once, before the first
\* attempt, held across every attempt and released only after the last one;
\* a retry takes no further entry in the window.
C28_PermitHeldAcrossRetries ==
    /\ [](\A t \in Tasks : cur_retry[t] > 0 => pc[t] = "body" /\ permit[t])
    /\ [][\A t \in Tasks :
            /\ cur_retry'[t] > cur_retry[t] =>
                  /\ permit[t] /\ permit'[t]
                  /\ pc' = pc /\ lim' = lim
                  /\ limiters' = limiters
                  /\ acquire_log' = acquire_log
            /\ permit[t] /\ ~permit'[t] =>
                  /\ pc[t] = "body" /\ pc'[t] = "done"
                  /\ task_result'[t].kind \in Exceptions
                        => cur_retry[t] = node.max_retries - 1
            /\ ~permit[t] /\ permit'[t] => cur_retry[t] = 0 /\ cur_retry'[t] = 0
         ]_vars

\* On the node with a window limit an item is in its last attempt, holding
\* its permit, with the one timestamp of its acquisition in the window.
C28_Witness ==
    /\ node.kind = "throttled"
    /\ \E t \in Tasks :
        /\ pc[t] = "body" /\ permit[t]
        /\ cur_retry[t] = MaxRetries - 1
        /\ cur_retry[t] > 0
        /\ Len(acquire_log) = 1
        /\ Len(limiters[lim[t]].timestamps) = 1

\* C29: with the default factors, a recovery step (the recovery_threshold-th
\* consecutive success) taken at a level below the ceiling strictly increases
\* the level, whatever backoffs led to that level.
C29_RecoveryStepIncreases ==
    [][/\ ( /\ node.kind = "adaptive"
            /\ node'.total_successes = node.total_successes + 1
            /\ node.consecutive_successes + 1 >= node.recovery_threshold
            /\ node.current_concurrent < node.ceiling )
          => node'.current_concurrent > node.current_concurrent
       /\ ( /\ flow.kind = "adaptive_flow"
            /\ flow'.total_rate_limits = flow.total_rate_limits
            /\ flow.consecutive_successes + 1 >= flow.recovery_threshold
            /\ flow'.consecutive_successes = 0
            /\ flow.current_concurrent_flows < flow.max_concurrent_flows )
          => flow'.current_concurrent_flows > flow.current_concurrent_flows
      ]_vars

\* Task t has returned from acquire(): it is in its protected block or past it.
Admitted(t) == pc[t] \in {"body", "done"}

\* C27: waiters on one limiter are admitted in the order in which they called
\* acquire(): a task is never admitted while a task that asked before it, and
\* was not cancelled, is still inside acquire(); with max_concurrent = 1 the
\* protected blocks run one after the other in that order.
C27_AdmittedInOrder ==
    \A a, b \in Tasks :
        (a < b /\ lim[a] = lim[b] /\ Admitted(b) /\ pc[a] # "cancelled") =>
            /\ Admitted(a)
            /\ limiters[lim[b]].max_concurrent = 1 /\ pc[b] = "body" => pc[a] = "done"

\* On a limiter of one permit the second task, which slept at the window
\* gate, is in its block after the first, while the third still waits at
\* the semaphore.
C27_Witness ==
    /\ limiters[1].max_concurrent = 1
    /\ pc[1] = "done"
    /\ pc[2] = "body" /\ wake_at[2] > 0
    /\ pc[3] = "sem_wait"
    /\ limiters[1].sem_waiters = <<3>>

\* C30: tasks sharing one RateLimiter, none cancelled, each leaving its block
\* and time advancing: every acquire() returns and in the end every task has
\* completed.
C30_AllTasksComplete ==
    /\ \A t \in Tasks : (pc[t] \in {"sem_wait", "sem_granted", "lock_wait", "lock_granted", "sleeping"}) ~> Admitted(t)
    /\ <>[](\A t \in Tasks : pc[t] = "done")

\* On a limiter of one permit and one entry per window all tasks have
\* completed, the second and the third after sleeping at the window gate.
C30_Witness ==
    /\ limiters[1].max_concurrent = 1
    /\ limiters[1].max_per_window = 1
    /\ \A t \in Tasks : pc[t] = "done"
    /\ wake_at[2] > 0
    /\ wake_at[3] > 0
    /\ limiters[1].value = 1

\* The user-function calls of the graph's node in flight in the instances
\* 1..n.
RECURSIVE InFlight(_)
InFlight(n) == IF n = 0 THEN 0 ELSE calls[n].running + InFlight(n - 1)

C31_CountersMatchOutcomes ==
    node.kind = "adaptive" =>
        /\ node.total_successes = Cardinality(EndedWith({"ok"}))
        /\ node.total_rate_limits
              = Cardinality(EndedWith({e \in Exceptions : IsRateLimitError(e)}))
        /\ (run = "returned" /\ EndedWith({"ok"}) = ItemTasks) =>
              /\ node.total_successes = Len(items)
              /\ node.total_rate_limits = 0

\* A batch of MaxTasks items has ended, items having ended out of order:
\* some succeeded, one of them after a failed attempt, and one failed with a
\* rate limit error.
C31_Witness ==
    /\ node.kind = "adaptive"
    /\ run = "raised"
    /\ Len(items) = MaxTasks
    /\ \A t \in ItemTasks : pc[t] = "done"
    /\ overtaken
    /\ node.total_successes = MaxTasks - 1
    /\ node.total_rate_limits = 1
    /\ \E t \in ItemTasks : task_result[t].kind = "ok" /\ attempt_hit[t]

\* C32: acquire() on a limiter without max_per_window records a timestamp
\* all the same: the acquisitions completed on it, none of which has left
\* the window, are what current_window_count reports.
C32_UnsetWindowRecords ==
    \A l \in DOMAIN limiters :
        limiters[l].max_per_window = None =>
            WindowCount(limiters[l], clock)
                = Cardinality({t \in Tasks : lim[t] = l /\ Admitted(t)})

\* C33: a task that sleeps at the window gate because the window is full
\* does not hold the timestamp mutex meanwhile, so that a task which holds a
\* semaphore permit can enter the critical section during the sleep: no
\* sleeper owns the lock and nobody queues for the lock behind a sleeper.
C33_SleeperHoldsNoMutex ==
    \A t \in Tasks :
        pc[t] = "sleeping" =>
            /\ limiters[lim[t]].lock_owner # t
            /\ \A u \in Tasks : lim[u] = lim[t] => pc[u] # "lock_wait"

\* C34: the current_window_count of LimiterRegistry.stats(name) is the
\* limiter's current_window_count property, the number of timestamps that
\* have not expired, in every state, also when recorded acquisitions have
\* aged out of the window and none has followed.
C34_StatsCountsUnexpired ==
    \A name \in DOMAIN registry :
        RegistryStats(registry, limiters, name).value.current_window_count
            = WindowCount(limiters[registry[name]], clock)

\* Tasks past the semaphore gate of limiter l: at the window gate (queued for
\* the lock, handed the lock, or sleeping) or inside their block.
PastSemaphore(l) ==
    {t \in Tasks : lim[t] = l /\ pc[t] \in {"lock_wait", "lock_granted", "sleeping", "body"}}

\* C35: acquire() passes the semaphore first and the window second: a task
\* at the window gate owns a permit, the tasks at the window gate or inside
\* their block are at most max_concurrent, and a task cancelled while it
\* waits at the semaphore gate records no timestamp, ends without a permit
\* and leaves the permits of its limiter, available plus owned, as they were
\* (the available ones too when it had not been woken).
C35_SemaphoreBeforeWindow ==
    /\ [](/\ \A t \in Tasks : pc[t] \in {"lock_wait", "lock_granted", "sleeping"} => permit[t]
          /\ \A l \in DOMAIN limiters :
                Cardinality(PastSemaphore(l)) <= limiters[l].max_concurrent)
    /\ [][\A t \in Tasks :
            (pc[t] \in {"sem_wait", "sem_granted"} /\ pc'[t] = "cancelled") =>
                /\ ~permit'[t]
                /\ acquire_log' = acquire_log
                /\ limiters'[lim[t]].timestamps = limiters[lim[t]].timestamps
                /\ limiters'[lim[t]].value + Cardinality({u \in Tasks : lim[u] = lim[t] /\ permit'[u]})
                      = limiters[lim[t]].max_concurrent
                /\ pc[t] = "sem_wait" =>
                      /\ limiters'[lim[t]].value = limiters[lim[t]].value
                      /\ permit' = permit
         ]_vars

\* A task was cancelled while it waited at the semaphore gate, while the
\* permits of the limiter are all with tasks past that gate, one of them
\* asleep at the window gate.
C35_Witness ==
    \E t, u \in Tasks :
        /\ pc[t] = "cancelled" /\ ~permit[t]
        /\ lim[u] = lim[t]
        /\ pc[u] = "sleeping" /\ permit[u]
        /\ Cardinality(PastSemaphore(lim[t])) = limiters[lim[t]].max_concurrent
        /\ limiters[lim[t]].value = 0

\* C36: the timestamp is appended before the block runs and stays whatever
\* ends the block: the step that takes a task of a windowed limiter into its
\* block appends the time of that step to the history, the step that ends a
\* block (return, exception or cancellation) leaves the history as it is,
\* and the timestamps of every limiter are in non-decreasing order.
C36_TimestampOutlivesBlock ==
    /\ [](\A l \in DOMAIN limiters :
            \A i, j \in DOMAIN limiters[l].timestamps :
                i <= j => limiters[l].timestamps[i] <= limiters[l].timestamps[j])
    /\ [][\A t \in Tasks :
            /\ (pc[t] # "body" /\ pc'[t] = "body" /\ limiters[lim'[t]].max_per_window # None) =>
                  /\ limiters'[lim'[t]].timestamps # <<>>
                  /\ limiters'[lim'[t]].timestamps[Len(limiters'[lim'[t]].timestamps)] = clock'
                  /\ acquire_log' = Append(acquire_log, <<lim'[t], clock'>>)
            /\ (pc[t] = "body" /\ pc'[t] # "body") =>
                  limiters'[lim[t]].timestamps = limiters[lim[t]].timestamps
         ]_vars

\* Every block has ended, the last one by an exception or a cancellation,
\* and the window still counts two acquisitions.
C36_Witness ==
    \E l \in DOMAIN limiters :
        /\ limiters[l].max_per_window # None
        /\ last_exit \in {"raise", "cancel"}
        /\ \A t \in Tasks : pc[t] # "body"
        /\ \E t \in Tasks : lim[t] = l /\ pc[t] = "done"
        /\ WindowCount(limiters[l], clock) >= 2
        /\ limiters[l].timestamps[1] < limiters[l].timestamps[Len(limiters[l].timestamps)]

\* The tasks that hold a permit of limiter l by their position in
\* `async with limiter`: handed one by the semaphore, at the window gate, or
\* inside the block.
HoldingByPosition(l) ==
    {t \in Tasks : lim[t] = l /\ pc[t] \in {"sem_granted", "lock_wait", "lock_granted", "sleeping", "body"}}

\* C37: permit conservation.  As long as no task has been cancelled inside
\* acquire() (blocks return, raise, or are cancelled inside the block), for
\* every limiter the available permits plus the tasks that are between
\* receiving a permit and leaving their block are max_concurrent, and the
\* available permits are between 0 and max_concurrent.
C37_PermitConservation ==
    (\A t \in Tasks : pc[t] # "cancelled") =>
        \A l \in DOMAIN limiters :
            /\ limiters[l].value + Cardinality(HoldingByPosition(l)) = limiters[l].max_concurrent
            /\ limiters[l].value >= 0
            /\ limiters[l].value <= limiters[l].max_concurrent

\* More tasks than permits have used the limiter, none was cancelled in
\* acquire(): one block ended by an exception, a permit is held and a task
\* still waits at the semaphore.
C37_Witness ==
    /\ \A t \in Tasks : pc[t] # "cancelled"
    /\ last_exit = "raise"
    /\ \E l \in DOMAIN limiters :
        /\ limiters[l].value = 0
        /\ Cardinality(HoldingByPosition(l)) = limiters[l].max_concurrent
        /\ \E t, u \in Tasks : /\ lim[t] = l /\ pc[t] = "done"
                               /\ lim[u] = l /\ pc[u] = "sem_wait"

\* The tasks that hold or await a permit of limiter instance l.
UsersOf(l) ==
    {t \in Tasks : lim[t] = l /\ pc[t] \notin {"none", "idle", "done", "cancelled"}}

\* The capacities of the limiter instances in ls, added up.
RECURSIVE SumCapacity(_)
SumCapacity(ls) ==
    IF ls = {} THEN 0
    ELSE LET l == CHOOSE x \in ls : TRUE IN
         limiters[l].max_concurrent + SumCapacity(ls \ {l})

\* C38: an adaptive resize binds only the acquisitions that start after it.
\* A task that holds or awaits a permit stays, until its block ends, on the
\* limiter instance it entered, whose capacity no step changes (it is
\* admitted there with that instance's permits), and each instance admits at most
\* its own capacity; so the items in flight, which can outnumber the
\* controller's current level after a backoff, are never more than the
\* capacities of the instances that still have holders or waiters, added up.
C38_ResizeBindsLaterAcquisitions ==
    /\ [](node.kind = "adaptive" =>
            /\ \A l \in DOMAIN limiters :
                  Cardinality({t \in UsersOf(l) : pc[t] = "body"}) <= limiters[l].max_concurrent
            /\ Cardinality({t \in ItemTasks : pc[t] = "body"})
                  <= SumCapacity({l \in DOMAIN limiters : UsersOf(l) # {}}))
    /\ [][\A t \in Tasks :
            (/\ node.kind = "adaptive"
             /\ t \in UsersOf(lim[t])
             /\ pc'[t] \notin {"none", "idle", "done", "cancelled"}) =>
                /\ lim'[t] = lim[t]
                /\ lim[t] \in DOMAIN limiters'
                /\ limiters'[lim[t]].max_concurrent = limiters[lim[t]].max_concurrent
                /\ (pc[t] # "body" /\ pc'[t] = "body") =>
                      limiters[lim[t]].value + Cardinality({u \in UsersOf(lim[t]) : permit[u]})
                          = limiters[lim[t]].max_concurrent
         ]_vars

\* After a backoff the node's limiter is a new instance of the current
\* level, and the items in flight, all admitted by the previous instance, one
\* of them after the swap's item had ended, outnumber that level.
C38_Witness ==
    /\ node.kind = "adaptive"
    /\ node.total_rate_limits > 0
    /\ node.current_concurrent < node.initial_concurrent
    /\ node.limiter \in DOMAIN limiters
    /\ limiters[node.limiter].max_concurrent = node.current_concurrent
    /\ Cardinality({t \in ItemTasks : pc[t] = "body"}) > node.current_concurrent
    /\ \A t \in ItemTasks : pc[t] = "body" => lim[t] # node.limiter
    /\ \E t \in ItemTasks : pc[t] = "done" /\ IsRateLimitError(task_result[t].kind)
    /\ \A t \in ItemTasks : pc[t] # "idle"

\* C39: whenever an adaptive executor has a limiter, the limiter's
\* max_concurrent is the controller's current concurrency, after any
\* sequence of successes, rate limits, resets of the limiter, resets of the
\* adaptive state and reads of the limiter.
C39_LimiterMatchesController ==
    /\ (node.kind = "adaptive" /\ node.limiter # 0) =>
          limiters[node.limiter].max_concurrent = node.current_concurrent
    /\ (flow.kind = "adaptive_flow" /\ flow.flow_limiter # 0) =>
          limiters[flow.flow_limiter].max_concurrent = flow.current_concurrent_flows

\* C40: replacing or removing a registry entry while tasks hold permits of
\* its limiter revokes nothing.  A registry call leaves every task, every
\* permit and every limiter instance in use as they were; a holder releases
\* to the instance it entered and to no other, every instance keeping
\* available plus owned permits at its capacity, and an instance with a permit
\* out is still there; and a limiter newly registered under the name is a
\* new instance with all its permits available, nobody queued and an empty
\* window history.
C40_ReplacedEntryKeepsPermits ==
    /\ [](/\ \A l \in DOMAIN limiters :
                /\ limiters[l].value >= 0
                /\ limiters[l].value + Cardinality(Owners(l)) = limiters[l].max_concurrent
          /\ \A t \in Tasks : pc[t] \notin {"idle", "done"} => lim[t] \in DOMAIN limiters)
    /\ [][(IsCall("register") \/ IsCall("remove") \/ IsCall("reset")) =>
            /\ pc' = pc /\ permit' = permit /\ lim' = lim
            /\ \A l \in DOMAIN limiters :
                  UsersOf(l) # {} => (l \in DOMAIN limiters' /\ limiters'[l] = limiters[l])
            /\ (IsCall("register") /\ last_call'.raised = "none") =>
                  LET new == registry'[last_call'.name] IN
                  /\ new \notin DOMAIN limiters
                  /\ limiters'[new].max_concurrent = last_call'.cfg[1]
                  /\ limiters'[new].value = last_call'.cfg[1]
                  /\ limiters'[new].sem_waiters = <<>>
                  /\ limiters'[new].timestamps = <<>>
                  /\ \A t \in Tasks : lim[t] # new \/ pc[t] \in {"idle", "done"}
         ]_vars
    /\ [][\A t \in Tasks :
            (pc[t] = "body" /\ pc'[t] = "done") =>
                \A l \in DOMAIN limiters' : l # lim[t] => limiters'[l] = limiters[l]
         ]_vars

\* The limiter under "shared" was replaced while call sites held its
\* permits and had recorded timestamps; they have all left since, the old
\* instance is gone, and a call site is inside the block of the new one.
C40_Witness ==
    /\ last_call.op = "register" /\ last_call.replace
    /\ "shared" \in DOMAIN registry
    /\ \E t, u \in Tasks :
        /\ pc[t] = "done" /\ site[t] = "shared"
        /\ lim[t] \notin DOMAIN limiters
        /\ \E i \in DOMAIN acquire_log : acquire_log[i][1] = lim[t]
        /\ pc[u] = "body" /\ lim[u] = registry["shared"]

====
